---- MODULE Spec2Model ----
(***************************************************************************)
(* Message-relay core of vicode: the Neovim-side (Denops) WebSocket        *)
(* manager - connection registry, synchronous command tracker, server      *)
(* lifecycle - and the cursor reconciler with its debounced sender.        *)
(***************************************************************************)
EXTENDS Integers, Sequences, FiniteSets, TLC

(* ------------------------------ bounds --------------------------------- *)
MaxSockets == 1
MaxConns == 3
MaxBroadcasts == 2
MaxVsEvents == 4
MaxCalls == 2
MaxOps == 3
MaxUnknown == 1
MaxCallbacks == 2
MaxResponses == 2
MaxEvents == 3
MaxOutbound == 5
TickMs == 25

(* ------------------------- program constants --------------------------- *)
DefaultTimeoutMs == 5000
DebounceMs == 50

(* ------------------------------ universes ------------------------------ *)
SocketIds == 1..MaxConns
\* the connections made while commands are tracked
CmdSockets == 1..MaxSockets
CallIds == 1..MaxCalls
\* the calls made by the editor layer: a command with its timeout
CallInputs == {[command |-> "cmdA", timeout |-> 200],
               [command |-> "cmdB", timeout |-> DefaultTimeoutMs]}
\* the responses the peer sends: result and isError
Responses == {[result |-> "r1", isError |-> FALSE],
              [result |-> "r2", isError |-> TRUE]}
NoServer == 0
\* the ids add_callback hands out
CallbackIds == 1..MaxCallbacks

VARIABLES
    sockets,          \* registry: the module-level Set<WebSocket>
    readyState,       \* WebSocket.readyState of every socket
    wire,             \* per socket, the messages handed to socket.send
    pendingRequests,  \* module-level Map<string, CommandRequest>
    timerState,       \* per request id, its setTimeout: none, armed, cleared, fired
    unknownResponses, \* request ids logged as "response for unknown request"
    settled,          \* per call, the resolve/reject invocations on its promise
    nextCall,         \* number of sendCommandAndWaitForResponse calls so far
    servers,          \* servers that are bound (Deno.serve, not yet shut down)
    closing,          \* servers on which shutdown() has been called
    currentServer,    \* module-level currentServer (NoServer = null)
    awaiting,         \* runWsServer/stopWsServer invocations suspended in shutdown()
    nextOp,           \* number of runWsServer/stopWsServer invocations so far
    curPath,          \* Neovim: expand("%:p") of the current buffer
    curLine,          \* Neovim: line(".")
    curCol,           \* Neovim: character column of the cursor
    lastCursorPos,    \* lastCursorPos of each WebSocketManager instance
    rpcQueue,         \* handler runs suspended in a denops call, in request order
    debounceTimer,    \* ms left on the timer of debouncedSyncCursor (0 = not armed)
    debounceArgs,     \* arguments of the last debouncedSyncCursor call
    elapsed,          \* ms since the last debouncedSyncCursor call (capped)
    burstLog,         \* per burst of debounced calls: arguments of its last call, calls
    lastAccepted,     \* the most recent accepted position update and its direction
    lastSync,         \* position and outcome of the last finished syncCursorPos
    lastInbound,      \* last handleCursorPosMessage decision: incoming, used, outcome
    nextEvent,        \* number of autocommands, inbound messages, user actions so far
    lastBroadcast,    \* the last broadcast of a command: what it found and did
    requestState,     \* Lua REQUEST_STATE: id counter and the ids in callbacks
    invoked,          \* per callback id, the invocations of the callback
    scheduled,        \* closures queued by vim.schedule in invoke_callback
    notified,         \* denops#notify requests not yet run by the dispatcher
    cbResponses,      \* the callback responses received from the peer, in order
    vsActive,         \* VSCode: path of the document of the active editor
    vsSel,            \* VSCode: per document, selection.active (0-based line, character)
    vsFocused,        \* VSCode: window.state.focused
    lastCursorPosition, \* VSCode: the module-level lastCursorPosition
    vsTasks,          \* VSCode: handleCursorPos runs suspended in showTextDocument
    vsPending,        \* VSCode: arguments of the pending debouncedSendCursorPos call
    vsSent,           \* VSCode: CursorPos messages handed to sendMessage
    vsLast,           \* VSCode: payload, local position, outcome of the last handleCursorPos
    nextVsEvent,      \* VSCode: number of messages and user actions so far
    vsAnchor,         \* VSCode: per document, selection.anchor (0-based line, character)
    selectionReceived, \* VSCode: the SelectionPos payloads handleMessage dispatched
    selectRangeCalls, \* VSCode: the arguments of every selectRange call
    originalMessage,  \* messages: the message a factory function built
    built,            \* messages: the factory function that built it
    binary,           \* messages: the fields serializeMessage wrote
    deserializedMessage, \* messages: the message deserializeMessage returned
    codecPc,          \* messages: "start", "built", "serialized", "decoded"
    vsLastMessage,    \* VSCode: the last message handleMessage got no variant from
    received,         \* Neovim: the last message socket.onmessage got, and what it did
    starts,           \* dispatcher.start: per call, its position, timer and return value
    serverPort,       \* addr.port of every server Deno.serve has bound (0: none)
    denopsLoaded,     \* Lua: denops#plugin#is_loaded("vicode") would return 1
    is_loaded_cache,  \* Lua: is_loaded_cache of init.lua
    notifier,         \* Lua: the run of wait_for_denops_and_notify
    blocker,          \* Lua: the run of start_server_and_get_port_blocking
    conn,             \* VSCode: the run of connect(): retryCount, this.socket, timers
    att,              \* VSCode: per attempt, readyState of its socket and its timeout
    syncResult,       \* per call, what executeVSCodeCommandSync handed its caller
    pendingMessages,  \* VSCode: this.pendingMessages of the WebSocketHandler
    sockSent,         \* VSCode: the messages socket.send accepted, with their socket
    nextSend,         \* VSCode: number of position messages the extension has sent
    listening,        \* VSCode: the sockets setupSocketListeners gave a message listener
    requests          \* VSCode: per request id, the ExecuteCommand received and its state

cursorVars == <<curPath, curLine, curCol, lastCursorPos, rpcQueue, debounceTimer,
                debounceArgs, elapsed, burstLog, lastAccepted, lastSync,
                lastInbound, nextEvent>>

regVars == <<lastBroadcast>>
codecVars == <<originalMessage, built, binary, deserializedMessage, codecPc>>
rcvVars == <<vsLastMessage, received>>
startVars == <<starts, serverPort>>
waitVars == <<denopsLoaded, is_loaded_cache, notifier, blocker>>
connVars == <<conn, att>>
syncVars == <<syncResult>>
hdlVars == <<pendingMessages, sockSent, nextSend, listening, requests>>
lateVars == <<syncVars, hdlVars>>
auxVars == <<codecVars, rcvVars, startVars, waitVars, connVars, lateVars>>
exceptCodec == <<rcvVars, startVars, waitVars, connVars, lateVars>>
exceptRcv == <<codecVars, startVars, waitVars, connVars, lateVars>>
exceptStart == <<codecVars, rcvVars, waitVars, connVars, lateVars>>
exceptWait == <<codecVars, rcvVars, startVars, connVars, lateVars>>
exceptConn == <<codecVars, rcvVars, startVars, waitVars, syncVars>>
earlyVars == <<codecVars, rcvVars, startVars, waitVars, connVars>>
exceptSync == <<earlyVars, hdlVars>>
selLog == <<selectionReceived, selectRangeCalls>>
selVars == <<vsAnchor, selLog>>
luaVars == <<requestState, invoked, scheduled, notified, cbResponses>>
vsVars == <<vsActive, vsSel, vsFocused, lastCursorPosition, vsTasks, vsPending,
            vsSent, vsLast, nextVsEvent,
           vsAnchor, selectionReceived, selectRangeCalls>>
extVars == <<regVars, luaVars, vsVars, auxVars>>

vars == <<sockets, readyState, wire, pendingRequests, timerState,
          unknownResponses, settled, nextCall, servers, closing, currentServer,
          awaiting, nextOp, cursorVars, extVars>>

(* ------------------------------ messages ------------------------------- *)
ExecuteCommandMsg(command, requestId) ==
    [sender |-> "vim", case |-> "executeCommand", command |-> command,
     requestId |-> requestId]

PingMsg == ExecuteCommandMsg("_ping", 0)

(* ---------------------------- settle events ---------------------------- *)
NoDestError == [arm |-> "reject", err |-> "No connected clients",
                command |-> "", timeout |-> 0, result |-> ""]

TimeoutError(command, timeout) ==
    [arm |-> "reject", err |-> "timed out", command |-> command,
     timeout |-> timeout, result |-> ""]

ResponseSettle(result, isError) ==
    [arm |-> IF isError THEN "reject" ELSE "resolve", err |-> "",
     command |-> "", timeout |-> 0, result |-> result]

(* ------------------------- connection registry ------------------------- *)
addSocket(set, s) == set \cup {s}

removeSocket(set, s) == set \ {s}

hasActiveConnections ==
    IF Cardinality(sockets) = 0
    THEN FALSE
    ELSE \E s \in sockets : readyState[s] = "OPEN"

\* sockets of the registry that broadcast finds in the OPEN state
OpenSockets == {s \in sockets : readyState[s] = "OPEN"}

\* a broadcast that leaves the registry as it is
broadcastSocketsKeepsAll == sockets

\* registry after broadcast: every socket found not OPEN is removed
broadcastSockets ==
    IF Cardinality(sockets) = 0
    THEN sockets
    ELSE {s \in sockets : readyState[s] = "OPEN"}

\* a broadcast that stops at the first socket whose send throws
broadcastWireAbortsOnThrow(msg, throwing) ==
    [s \in SocketIds |->
        IF s \in sockets /\ readyState[s] = "OPEN"
           /\ \A x \in throwing : s < x
        THEN Append(wire[s], msg)
        ELSE wire[s]]

\* wire after broadcast: the message is handed to every OPEN socket whose
\* send does not throw (throwing is the set of sockets whose send throws)
broadcastWire(msg, throwing) ==
    [s \in SocketIds |->
        IF s \in sockets /\ readyState[s] = "OPEN" /\ s \notin throwing
        THEN Append(wire[s], msg)
        ELSE wire[s]]

(* ------------------------------- Neovim -------------------------------- *)
Term == "term://sh"
Paths == {"/a", "/b"}
Buffers == Paths \cup {Term}

\* character lengths of the lines of each buffer (text is ASCII, so the
\* character column of getCurrentCol is the byte column of col("."))
LineLengths(path) == IF path = "/a" THEN <<2, 1>> ELSE <<1>>

Min(a, b) == IF a < b THEN a ELSE b
Max(a, b) == IF a > b THEN a ELSE b

Pos(path, line, col) == [path |-> path, line |-> line, col |-> col]
NoPos == Pos("", 0, 0)

getCurrentLine == curLine
getCurrentCol == curCol
getCurrentPath == curPath
getLastLine == Len(LineLengths(curPath))
getSpecificLineLength(line) ==
    IF line \in 1..Len(LineLengths(curPath))
    THEN LineLengths(curPath)[line]
    ELSE 0
buftype == IF curPath = Term THEN "terminal" ELSE ""

\* where cursor(line, col) of Neovim puts the cursor in buffer path
cursorLine(path, line) == Min(Max(line, 1), Len(LineLengths(path)))
cursorCol(path, line, col) ==
    Min(Max(col, 1), Max(1, LineLengths(path)[cursorLine(path, line)]))

\* positions the user can put the cursor on in buffer path
ValidPositions(path) ==
    {Pos(path, l, c) : l \in 1..Len(LineLengths(path)), c \in 1..2} \cap
    {Pos(path, cursorLine(path, l), cursorCol(path, l, c)) : l \in 1..2, c \in 1..2}

\* the CursorPos payloads the peer sends
InboundPositions ==
    {Pos("/a", 2, 1), Pos("/a", 2, 2), Pos("/a", 3, 1), Pos("/b", 1, 1)}

CursorPosMsg(path, line, col) ==
    [sender |-> "vim", case |-> "cursorPos", path |-> path, line |-> line,
     col |-> col]

\* a handler run suspended in a denops call: its kind, its position in the
\* code and its local variables
Task(kind, pc, np) ==
    [kind |-> kind, pc |-> pc, np |-> np, cl |-> 0, cc |-> 0, cp |-> "", ll |-> 0]

NoArgs == [line |-> 0, col |-> 0]

(* ------------------------------- Init ---------------------------------- *)
InitCursorVars ==
    /\ curPath = "/a"
    /\ curLine = 1
    /\ curCol = 1
    /\ lastCursorPos = [i \in {"main", "websocket"} |-> NoPos]
    /\ rpcQueue = <<>>
    /\ debounceTimer = 0
    /\ debounceArgs = NoArgs
    /\ elapsed = DebounceMs
    /\ burstLog = <<>>
    /\ lastAccepted = [pos |-> NoPos, origin |-> "none"]
    /\ lastSync = [pos |-> NoPos, outcome |-> "none"]
    /\ lastInbound = [in |-> NoPos, eff |-> NoPos, outcome |-> "none"]
    /\ nextEvent = 1

\* nothing broadcast yet, no Lua callback registered, VSCode showing /a
NoMessage == [sender |-> "", payload |-> [case |-> "undefined"]]

InitCodecVars ==
    /\ originalMessage = NoMessage
    /\ built = "none"
    /\ binary = <<>>
    /\ deserializedMessage = NoMessage
    /\ codecPc = "start"

\* values as they travel in messages: a JSON number or a JSON string
Number(n) == [type |-> "number", val |-> n]

\* String(x) of JavaScript, for a number x
String(n) == [type |-> "string", val |-> n]

\* no callbackId in the message
Undefined == [type |-> "undefined", val |-> 0]

NoData == [kind |-> "none", sender |-> "", case |-> "", pos |-> NoPos,
           requestId |-> 0, callbackId |-> Undefined, result |-> "",
           isError |-> FALSE]

InitRcvVars ==
    /\ vsLastMessage = [n |-> 0, kind |-> "none", outcome |-> "none"]
    /\ received = [n |-> 0, data |-> NoData, outcome |-> "none"]

NoResult == [success |-> FALSE, port |-> 0, error |-> ""]

InitStartVars ==
    /\ starts = [id \in 1..MaxOps |-> [pc |-> "none", timer |-> 0, result |-> NoResult]]
    /\ serverPort = [id \in 1..MaxOps |-> 0]

Waiter == [pc |-> "idle", max_attempts |-> 0, attempt |-> 0, checks |-> 0,
           calls |-> 0, port |-> 0]

InitWaitVars ==
    /\ denopsLoaded = FALSE
    /\ is_loaded_cache = FALSE
    /\ notifier = Waiter
    /\ blocker = Waiter

MaxRetries == 3
AttemptIds == 1..(MaxRetries + 2)

InitConnVars ==
    /\ conn = [pc |-> "idle", maxRetries |-> 0, retryCount |-> 0, socket |-> 0,
               attempts |-> 0, scheduled |-> 0, failures |-> 0, lateAttempts |-> 0,
               connectionReady |-> FALSE]
    /\ att = [a \in AttemptIds |-> [readyState |-> "NEW", timeout |-> "none"]]

NotReturned == [kind |-> "pending", success |-> FALSE, data |-> "", error |-> ""]

InitSyncVars ==
    /\ syncResult = [k \in CallIds |-> NotReturned]

MaxRequests == 2
RequestIds == 1..MaxRequests
NoRequest == [state |-> "none", command |-> "", ok |-> FALSE, result |-> ""]

InitHdlVars ==
    /\ pendingMessages = <<>>
    /\ sockSent = <<>>
    /\ nextSend = 1
    /\ listening = {}
    /\ requests = [k \in RequestIds |-> NoRequest]

InitLateVars ==
    /\ InitSyncVars
    /\ InitHdlVars

InitAuxVars ==
    /\ InitCodecVars
    /\ InitRcvVars
    /\ InitStartVars
    /\ InitWaitVars
    /\ InitConnVars
    /\ InitLateVars

InitExtVars ==
    /\ lastBroadcast = [n |-> 0, msg |-> PingMsg, found |-> {}, open |-> {},
                        throwing |-> {}, outcome |-> "none", result |-> "none"]
    /\ requestState = [id |-> 0, callbacks |-> {}]
    /\ invoked = [i \in CallbackIds |-> <<>>]
    /\ scheduled = <<>>
    /\ notified = <<>>
    /\ cbResponses = <<>>
    /\ vsActive = "/a"
    /\ vsSel = [p \in Paths |-> [line |-> 0, character |-> 0]]
    /\ vsFocused = FALSE
    /\ lastCursorPosition = NoPos
    /\ vsTasks = <<>>
    /\ vsPending = NoPos
    /\ vsSent = <<>>
    /\ vsLast = [payload |-> NoPos, outcome |-> "none"]
    /\ nextVsEvent = 1
    /\ vsAnchor = [p \in Paths |-> [line |-> 0, character |-> 0]]
    /\ selectionReceived = <<>>
    /\ selectRangeCalls = <<>>
    /\ InitAuxVars

InitCmd ==
    /\ InitCursorVars
    /\ InitExtVars
    /\ sockets = {}
    /\ readyState = [s \in SocketIds |-> "NEW"]
    /\ wire = [s \in SocketIds |-> <<>>]
    /\ pendingRequests = <<>>
    /\ timerState = [k \in CallIds |-> "none"]
    /\ unknownResponses = {}
    /\ settled = [k \in CallIds |-> <<>>]
    /\ nextCall = 1
    /\ servers = {}
    /\ closing = {}
    /\ currentServer = NoServer
    /\ awaiting = {}
    /\ nextOp = 1

(* --------------------------- server lifecycle -------------------------- *)
srvVars == <<servers, closing, currentServer, awaiting, nextOp>>
sockVars == <<sockets, readyState, wire>>
reqVars == <<pendingRequests, timerState, unknownResponses, settled, nextCall>>

\* runWsServer with no current server: Deno.serve binds a new server, or throws
RunServe(ok) ==
    /\ nextOp <= MaxOps
    /\ currentServer = NoServer
    /\ nextOp' = nextOp + 1
    /\ IF ok
       THEN /\ servers' = servers \cup {nextOp}
            /\ currentServer' = nextOp
       ELSE UNCHANGED <<servers, currentServer>>
    /\ UNCHANGED <<closing, awaiting, sockVars, reqVars, cursorVars, extVars>>

\* runWsServer with a current server: call shutdown() on it and suspend
RunBegin ==
    /\ nextOp <= MaxOps
    /\ currentServer # NoServer
    /\ nextOp' = nextOp + 1
    /\ closing' = closing \cup {currentServer}
    /\ awaiting' = awaiting \cup {[id |-> nextOp, kind |-> "run", srv |-> currentServer]}
    /\ UNCHANGED <<servers, currentServer, sockVars, reqVars, cursorVars, extVars>>

\* runWsServer resumed after shutdown(): currentServer = null, then Deno.serve
RunResume(op, ok) ==
    /\ op \in awaiting
    /\ op.kind = "run"
    /\ awaiting' = awaiting \ {op}
    /\ closing' = closing \ {op.srv}
    /\ IF ok
       THEN /\ servers' = (servers \ {op.srv}) \cup {op.id}
            /\ currentServer' = op.id
       ELSE /\ servers' = servers \ {op.srv}
            /\ currentServer' = NoServer
    /\ UNCHANGED <<nextOp, sockVars, reqVars, cursorVars, extVars>>

\* stopWsServer with a current server: call shutdown() on it and suspend
StopBegin ==
    /\ nextOp <= MaxOps
    /\ currentServer # NoServer
    /\ nextOp' = nextOp + 1
    /\ closing' = closing \cup {currentServer}
    /\ awaiting' = awaiting \cup {[id |-> nextOp, kind |-> "stop", srv |-> currentServer]}
    /\ UNCHANGED <<servers, currentServer, sockVars, reqVars, cursorVars, extVars>>

\* a stopWsServer that cancels the request timers without settling the requests
StopResumeClearsTimers(op) ==
    /\ op \in awaiting
    /\ op.kind = "stop"
    /\ awaiting' = awaiting \ {op}
    /\ closing' = closing \ {op.srv}
    /\ servers' = servers \ {op.srv}
    /\ currentServer' = NoServer
    /\ timerState' = [k \in CallIds |->
                        IF timerState[k] = "armed" THEN "cleared" ELSE timerState[k]]
    /\ UNCHANGED <<nextOp, sockVars, pendingRequests, unknownResponses, settled, nextCall, cursorVars, extVars>>

\* stopWsServer resumed after shutdown(): currentServer = null
StopResume(op) ==
    /\ op \in awaiting
    /\ op.kind = "stop"
    /\ awaiting' = awaiting \ {op}
    /\ closing' = closing \ {op.srv}
    /\ servers' = servers \ {op.srv}
    /\ currentServer' = NoServer
    /\ UNCHANGED <<nextOp, sockVars, reqVars, cursorVars, extVars>>

(* ----------------------------- connections ----------------------------- *)
\* handleWs: upgrade the request and register the socket
Accept(s) ==
    /\ servers \ closing # {}
    /\ readyState[s] = "NEW"
    /\ readyState' = [readyState EXCEPT ![s] = "CONNECTING"]
    /\ sockets' = addSocket(sockets, s)
    /\ UNCHANGED <<wire, reqVars, srvVars, cursorVars, extVars>>

\* socket.onopen: send the _ping message on this socket (send may throw)
OnOpen(s, throws) ==
    /\ readyState[s] = "CONNECTING"
    /\ readyState' = [readyState EXCEPT ![s] = "OPEN"]
    /\ wire' = IF throws THEN wire ELSE [wire EXCEPT ![s] = Append(@, PingMsg)]
    /\ UNCHANGED <<sockets, reqVars, srvVars, cursorVars, extVars>>

\* the transport starts closing; the close event is delivered later
StartClose(s) ==
    /\ readyState[s] \in {"CONNECTING", "OPEN"}
    /\ readyState' = [readyState EXCEPT ![s] = "CLOSING"]
    /\ UNCHANGED <<sockets, wire, reqVars, srvVars, cursorVars, extVars>>

\* socket.onclose
OnClose(s) ==
    /\ readyState[s] = "CLOSING"
    /\ readyState' = [readyState EXCEPT ![s] = "CLOSED"]
    /\ sockets' = removeSocket(sockets, s)
    /\ UNCHANGED <<wire, reqVars, srvVars, cursorVars, extVars>>

\* socket.onerror (the close event follows)
OnError(s) ==
    /\ readyState[s] \in {"CONNECTING", "OPEN"}
    /\ readyState' = [readyState EXCEPT ![s] = "CLOSING"]
    /\ sockets' = removeSocket(sockets, s)
    /\ UNCHANGED <<wire, reqVars, srvVars, cursorVars, extVars>>

(* --------------------------- command tracker --------------------------- *)
\* sendCommandAndWaitForResponse without the sockets.size check
sendCommandWithoutSizeCheck(command, timeout, throwing) ==
    /\ nextCall <= MaxCalls
    /\ nextCall' = nextCall + 1
    /\ timerState' = [timerState EXCEPT ![nextCall] = "armed"]
    /\ pendingRequests' =
         [k \in DOMAIN pendingRequests \cup {nextCall} |->
            IF k = nextCall
            THEN [id |-> nextCall, command |-> command, timeout |-> timeout]
            ELSE pendingRequests[k]]
    /\ sockets' = broadcastSockets
    /\ wire' = broadcastWire(ExecuteCommandMsg(command, nextCall), throwing)
    /\ UNCHANGED <<settled, readyState, unknownResponses, srvVars, cursorVars, extVars>>

\* sendCommandAndWaitForResponse(command, args, timeout); the request id
\* (crypto.randomUUID) is the number of the call
sendCommandAndWaitForResponse(command, timeout, throwing) ==
    /\ nextCall <= MaxCalls
    /\ nextCall' = nextCall + 1
    /\ IF Cardinality(sockets) = 0
       THEN /\ settled' = [settled EXCEPT ![nextCall] = Append(@, NoDestError)]
            /\ UNCHANGED <<pendingRequests, timerState, sockets, wire>>
       ELSE /\ timerState' = [timerState EXCEPT ![nextCall] = "armed"]
            /\ pendingRequests' =
                 [k \in DOMAIN pendingRequests \cup {nextCall} |->
                    IF k = nextCall
                    THEN [id |-> nextCall, command |-> command, timeout |-> timeout]
                    ELSE pendingRequests[k]]
            /\ sockets' = broadcastSockets
            /\ wire' = broadcastWire(ExecuteCommandMsg(command, nextCall), throwing)
            /\ UNCHANGED settled
    /\ UNCHANGED <<readyState, unknownResponses, srvVars, cursorVars, extVars>>

CallSync ==
    \E in \in CallInputs, throwing \in SUBSET OpenSockets :
        sendCommandAndWaitForResponse(in.command, in.timeout, throwing)

\* pendingRequests.delete(requestId)
deleteRequest(requestId) ==
    [k \in DOMAIN pendingRequests \ {requestId} |-> pendingRequests[k]]

\* handleCommandResponse that leaves the entry in pendingRequests
handleCommandResponseKeepsEntry(requestId, result, isError) ==
    IF requestId \notin DOMAIN pendingRequests
    THEN /\ Cardinality(unknownResponses) < MaxUnknown
         /\ unknownResponses' = unknownResponses \cup {requestId}
         /\ UNCHANGED <<pendingRequests, timerState, settled>>
    ELSE /\ timerState' = [timerState EXCEPT ![requestId] = "cleared"]
         /\ settled' = [settled EXCEPT
                          ![requestId] = Append(@, ResponseSettle(result, isError))]
         /\ UNCHANGED <<pendingRequests, unknownResponses>>

\* handleCommandResponse that does not call clearTimeout
handleCommandResponseKeepsTimer(requestId, result, isError) ==
    IF requestId \notin DOMAIN pendingRequests
    THEN /\ Cardinality(unknownResponses) < MaxUnknown
         /\ unknownResponses' = unknownResponses \cup {requestId}
         /\ UNCHANGED <<pendingRequests, timerState, settled>>
    ELSE /\ pendingRequests' = [k \in DOMAIN pendingRequests \ {requestId} |-> pendingRequests[k]]
         /\ settled' = [settled EXCEPT
                          ![requestId] = Append(@, ResponseSettle(result, isError))]
         /\ UNCHANGED <<timerState, unknownResponses>>

\* handleCommandResponse that cancels the timer before it looks the id up
handleCommandResponseClearsUnknown(requestId, result, isError) ==
    IF requestId \notin DOMAIN pendingRequests
    THEN /\ Cardinality(unknownResponses) < MaxUnknown
         /\ unknownResponses' = unknownResponses \cup {requestId}
         /\ timerState' = [timerState EXCEPT ![requestId] = "cleared"]
         /\ UNCHANGED <<pendingRequests, settled>>
    ELSE /\ timerState' = [timerState EXCEPT ![requestId] = "cleared"]
         /\ pendingRequests' = [k \in DOMAIN pendingRequests \ {requestId} |-> pendingRequests[k]]
         /\ settled' = [settled EXCEPT
                          ![requestId] = Append(@, ResponseSettle(result, isError))]
         /\ UNCHANGED unknownResponses

\* handleCommandResponse(requestId, result, isError)
handleCommandResponse(requestId, result, isError) ==
    IF requestId \notin DOMAIN pendingRequests
    THEN /\ Cardinality(unknownResponses) < MaxUnknown
         /\ unknownResponses' = unknownResponses \cup {requestId}
         /\ UNCHANGED <<pendingRequests, timerState, settled>>
    ELSE /\ timerState' = [timerState EXCEPT ![requestId] = "cleared"]
         /\ pendingRequests' = deleteRequest(requestId)
         /\ settled' = [settled EXCEPT
                          ![requestId] = Append(@, ResponseSettle(result, isError))]
         /\ UNCHANGED unknownResponses

\* socket.onmessage for an executeCommand message from "vscode" that carries
\* a requestId
OnCommandResponse(s, requestId, result, isError) ==
    /\ readyState[s] = "OPEN"
    /\ handleCommandResponse(requestId, result, isError)
    /\ UNCHANGED <<nextCall, sockVars, srvVars, cursorVars, extVars>>

\* a timeout callback that rejects but leaves the entry in pendingRequests
TimeoutFireKeepsEntry(requestId) ==
    /\ timerState[requestId] = "armed"
    /\ timerState' = [timerState EXCEPT ![requestId] = "fired"]
    /\ IF requestId \in DOMAIN pendingRequests
       THEN /\ settled' = [settled EXCEPT
                             ![requestId] = Append(@,
                                TimeoutError(pendingRequests[requestId].command,
                                             pendingRequests[requestId].timeout))]
            /\ UNCHANGED pendingRequests
       ELSE UNCHANGED <<pendingRequests, settled>>
    /\ UNCHANGED <<nextCall, unknownResponses, sockVars, srvVars, cursorVars, extVars>>

\* the setTimeout callback of request requestId
TimeoutFire(requestId) ==
    /\ timerState[requestId] = "armed"
    /\ timerState' = [timerState EXCEPT ![requestId] = "fired"]
    /\ IF requestId \in DOMAIN pendingRequests
       THEN /\ pendingRequests' = deleteRequest(requestId)
            /\ settled' = [settled EXCEPT
                             ![requestId] = Append(@,
                                TimeoutError(pendingRequests[requestId].command,
                                             pendingRequests[requestId].timeout))]
       ELSE UNCHANGED <<pendingRequests, settled>>
    /\ UNCHANGED <<nextCall, unknownResponses, sockVars, srvVars, cursorVars, extVars>>

(* ---------------------- executeVSCodeCommandSync ---------------------- *)
\* String(error): an Error prints as "Error: " and its message, a string as itself
StringOfError(e) ==
    IF e.err # ""
    THEN [prefix |-> "Error: ", message |-> e.err, command |-> e.command,
          timeout |-> e.timeout]
    ELSE [prefix |-> "", message |-> e.result, command |-> "", timeout |-> 0]

\* executeVSCodeCommandSync whose try block starts after the call of the tracker
settleOutsideTry(e) ==
    IF e.arm = "resolve"
    THEN [kind |-> "returned", success |-> TRUE, data |-> e.result, error |-> ""]
    ELSE IF e = NoDestError
    THEN [kind |-> "thrown", success |-> FALSE, data |-> "", error |-> StringOfError(e)]
    ELSE [kind |-> "returned", success |-> FALSE, data |-> "", error |-> StringOfError(e)]

\* the try/catch around the awaited sendCommandAndWaitForResponse
settleInsideTry(e) ==
    IF e.arm = "resolve"
    THEN [kind |-> "returned", success |-> TRUE, data |-> e.result, error |-> ""]
    ELSE [kind |-> "returned", success |-> FALSE, data |-> "", error |-> StringOfError(e)]

\* executeVSCodeCommandSync resumed after its await: the promise of call k is settled
CallSyncReturn(k) ==
    /\ settled[k] # <<>>
    /\ syncResult[k] = NotReturned
    /\ syncResult' = [syncResult EXCEPT ![k] = settleInsideTry(Head(settled[k]))]
    /\ UNCHANGED <<sockets, readyState, wire, pendingRequests, timerState,
                   unknownResponses, settled, nextCall, srvVars, cursorVars,
                   regVars, luaVars, vsVars, exceptSync>>

(* ------------------------------ SpecCmd -------------------------------- *)
NextCmd ==
    \/ \E ok \in BOOLEAN : RunServe(ok)
    \/ RunBegin
    \/ \E op \in awaiting, ok \in BOOLEAN : RunResume(op, ok)
    \/ StopBegin
    \/ \E op \in awaiting : StopResume(op)
    \/ \E s \in CmdSockets : Accept(s)
    \/ \E s \in CmdSockets, throws \in BOOLEAN : OnOpen(s, throws)
    \/ \E s \in CmdSockets : StartClose(s)
    \/ \E s \in CmdSockets : OnClose(s)
    \/ \E s \in CmdSockets : OnError(s)
    \/ CallSync
    \/ \E s \in CmdSockets, requestId \in CallIds, r \in Responses :
          OnCommandResponse(s, requestId, r.result, r.isError)
    \/ \E requestId \in CallIds : TimeoutFire(requestId)

SpecCmd == InitCmd /\ [][NextCmd]_vars

(* ------------------------------ SpecSync ------------------------------- *)
NextSync ==
    \/ NextCmd
    \/ \E k \in CallIds : CallSyncReturn(k)

SpecSync == InitCmd /\ [][NextSync]_vars

(* --------------------------- cursor: outbound -------------------------- *)
cmdVars == <<pendingRequests, timerState, unknownResponses, settled, nextCall,
             servers, closing, currentServer, awaiting, nextOp>>
editorVars == <<curPath, curLine, curCol>>
debounceVars == <<debounceTimer, debounceArgs, elapsed, burstLog>>

HeadTask == rpcQueue[1]

\* the handler at the head of the queue goes on to its next denops call
Suspend(task) == rpcQueue' = Append(Tail(rpcQueue), task)

\* the handler at the head of the queue returns
Finish == rpcQueue' = Tail(rpcQueue)

\* the cursor autocommands notify the dispatcher: syncCursorPos starts
StartSync(max) ==
    /\ nextEvent <= max
    /\ nextEvent' = nextEvent + 1
    /\ rpcQueue' = Append(rpcQueue, Task("sync", "line", NoPos))
    /\ UNCHANGED <<editorVars, lastCursorPos, debounceVars, lastAccepted, lastSync, lastInbound,
                   sockVars, cmdVars, extVars>>

\* syncCursorPos: await getCurrentLine, await getCurrentCol
SyncRead ==
    /\ rpcQueue # <<>>
    /\ HeadTask.kind = "sync"
    /\ HeadTask.pc \in {"line", "col"}
    /\ IF HeadTask.pc = "line"
       THEN Suspend([HeadTask EXCEPT !.cl = getCurrentLine, !.pc = "col"])
       ELSE Suspend([HeadTask EXCEPT !.cc = getCurrentCol, !.pc = "path"])
    /\ UNCHANGED <<editorVars, lastCursorPos, debounceVars, lastAccepted, lastSync, lastInbound,
                   nextEvent, sockVars, cmdVars, extVars>>

\* a debounced function that keeps the arguments of the first call of a burst
debouncedKeepsFirstArgs(line, col) ==
    /\ debounceTimer' = DebounceMs
    /\ debounceArgs' = IF debounceTimer > 0
                       THEN debounceArgs
                       ELSE [line |-> line, col |-> col]

\* debouncedSyncCursor(line, col): debounce() clears the timer and arms it
\* again for DebounceMs with the arguments of this call
debouncedSyncCursor(line, col) ==
    /\ debounceTimer' = DebounceMs
    /\ debounceArgs' = [line |-> line, col |-> col]

\* syncCursorPos without the comparison with lastCursorPos
syncCursorPosNoDedupe(lineNum, colNum, currentPath) ==
    /\ lastCursorPos' = [lastCursorPos EXCEPT
                           !["main"] = Pos(currentPath, lineNum, colNum)]
    /\ debouncedSyncCursor(lineNum, colNum)

\* syncCursorPos after its three reads: dedupe against lastCursorPos of the
\* manager of main.ts, else store the position and call the debounced sender
syncCursorPos(lineNum, colNum, currentPath) ==
    IF lastCursorPos["main"] = Pos(currentPath, lineNum, colNum)
    THEN UNCHANGED <<lastCursorPos, debounceTimer, debounceArgs>>
    ELSE /\ lastCursorPos' = [lastCursorPos EXCEPT
                                !["main"] = Pos(currentPath, lineNum, colNum)]
         /\ debouncedSyncCursor(lineNum, colNum)

\* syncCursorPos: await getCurrentPath, then the rest of the function
SyncFinish ==
    /\ rpcQueue # <<>>
    /\ HeadTask.kind = "sync"
    /\ HeadTask.pc = "path"
    /\ Finish
    /\ syncCursorPos(HeadTask.cl, HeadTask.cc, getCurrentPath)
    /\ LET pos == Pos(getCurrentPath, HeadTask.cl, HeadTask.cc)
           called == debounceTimer' # debounceTimer \/ debounceArgs' # debounceArgs
                     \/ lastCursorPos' # lastCursorPos
       IN  IF called
           THEN /\ lastSync' = [pos |-> pos, outcome |-> "sent"]
                /\ lastAccepted' = [pos |-> pos, origin |-> "outbound"]
                /\ elapsed' = 0
                /\ burstLog' =
                     IF elapsed < DebounceMs /\ burstLog # <<>>
                     THEN [burstLog EXCEPT ![Len(burstLog)] =
                             [line |-> HeadTask.cl, col |-> HeadTask.cc,
                              calls |-> @.calls + 1]]
                     ELSE Append(burstLog, [line |-> HeadTask.cl, col |-> HeadTask.cc,
                                            calls |-> 1])
           ELSE /\ lastSync' = [pos |-> pos, outcome |-> "suppressed"]
                /\ UNCHANGED <<lastAccepted, elapsed, burstLog>>
    /\ UNCHANGED <<editorVars, lastInbound, nextEvent, sockVars, cmdVars, extVars>>

\* time passes; when the debounce timer runs out its callback starts the
\* debounced function, which suspends in denops.call("expand", "%:p")
AdvanceTime ==
    /\ debounceTimer > 0 \/ elapsed < DebounceMs
    /\ elapsed' = Min(DebounceMs, elapsed + TickMs)
    /\ IF debounceTimer > 0 /\ debounceTimer <= TickMs
       THEN /\ debounceTimer' = 0
            /\ debounceArgs' = NoArgs
            /\ rpcQueue' = Append(rpcQueue,
                 Task("flush", "path", Pos("", debounceArgs.line, debounceArgs.col)))
       ELSE /\ debounceTimer' = IF debounceTimer > 0 THEN debounceTimer - TickMs ELSE 0
            /\ UNCHANGED <<debounceArgs, rpcQueue>>
    /\ UNCHANGED <<editorVars, lastCursorPos, burstLog, lastAccepted, lastSync, lastInbound,
                   nextEvent, sockVars, cmdVars, extVars>>

\* the debounced function after its await: build the CursorPos message with
\* the current path and broadcast it
Flush ==
    /\ rpcQueue # <<>>
    /\ HeadTask.kind = "flush"
    /\ Finish
    /\ sockets' = broadcastSockets
    /\ wire' = broadcastWire(CursorPosMsg(getCurrentPath, HeadTask.np.line, HeadTask.np.col), {})
    /\ UNCHANGED <<readyState, editorVars, lastCursorPos, debounceVars, lastAccepted,
                   lastSync, lastInbound, nextEvent, cmdVars, extVars>>

(* --------------------------- cursor: inbound --------------------------- *)
\* socket.onmessage: a CursorPos message from "vscode" starts
\* handleCursorPosMessage on the manager of websocket.ts
ReceiveCursorPos(s, payload) ==
    /\ nextEvent <= MaxEvents
    /\ readyState[s] = "OPEN"
    /\ nextEvent' = nextEvent + 1
    /\ rpcQueue' = Append(rpcQueue, Task("inbound", "line", payload))
    /\ UNCHANGED <<editorVars, lastCursorPos, debounceVars, lastAccepted, lastSync, lastInbound,
                   sockVars, cmdVars, extVars>>

\* handleCursorPosMessage: the awaits of getCurrentLine, getCurrentCol,
\* getCurrentPath and getLastLine
HandlerRead ==
    /\ rpcQueue # <<>>
    /\ HeadTask.kind = "inbound"
    /\ HeadTask.pc \in {"line", "col", "path", "lastLine"}
    /\ Suspend(CASE HeadTask.pc = "line" -> [HeadTask EXCEPT !.cl = getCurrentLine, !.pc = "col"]
                 [] HeadTask.pc = "col" -> [HeadTask EXCEPT !.cc = getCurrentCol, !.pc = "path"]
                 [] HeadTask.pc = "path" -> [HeadTask EXCEPT !.cp = getCurrentPath, !.pc = "lastLine"]
                 [] OTHER -> [HeadTask EXCEPT !.ll = getLastLine, !.pc = "len"])
    /\ UNCHANGED <<editorVars, lastCursorPos, debounceVars, lastAccepted, lastSync, lastInbound,
                   nextEvent, sockVars, cmdVars, extVars>>

\* a clamp that looks at the line only
newCursorPosIgnoresColumn(task, lastColOfNewLine) ==
    IF task.cp = task.np.path /\ task.ll < task.np.line
    THEN Pos(task.cp, task.cl, task.cc)
    ELSE task.np

\* the position handleCursorPosMessage goes on with: the local position
\* when the incoming one is on the current path and beyond the buffer
newCursorPos(task, lastColOfNewLine) ==
    IF task.cp = task.np.path
       /\ (task.ll < task.np.line \/ lastColOfNewLine < task.np.col)
    THEN Pos(task.cp, task.cl, task.cc)
    ELSE task.np

\* handleCursorPosMessage without the comparison with lastCursorPos
HandlerDecideNoDedupe ==
    /\ rpcQueue # <<>>
    /\ HeadTask.kind = "inbound"
    /\ HeadTask.pc = "len"
    /\ LET new == newCursorPos(HeadTask, getSpecificLineLength(HeadTask.np.line))
       IN  /\ Suspend([HeadTask EXCEPT !.np = new, !.pc = "buftype"])
           /\ lastInbound' = [in |-> HeadTask.np, eff |-> new, outcome |-> "accepted"]
    /\ UNCHANGED <<editorVars, lastCursorPos, debounceVars, lastAccepted, lastSync,
                   nextEvent, sockVars, cmdVars, extVars>>

\* handleCursorPosMessage: await getSpecificLineLength, clamp, dedupe
\* against lastCursorPos of the manager of websocket.ts
HandlerDecide ==
    /\ rpcQueue # <<>>
    /\ HeadTask.kind = "inbound"
    /\ HeadTask.pc = "len"
    /\ LET new == newCursorPos(HeadTask, getSpecificLineLength(HeadTask.np.line))
       IN  /\ IF lastCursorPos["websocket"] = new
              THEN Finish
              ELSE Suspend([HeadTask EXCEPT !.np = new, !.pc = "buftype"])
           /\ lastInbound' =
                 [in |-> HeadTask.np, eff |-> new,
                  outcome |-> IF lastCursorPos["websocket"] = new
                              THEN "suppressed" ELSE "accepted"]
    /\ UNCHANGED <<editorVars, lastCursorPos, debounceVars, lastAccepted, lastSync,
                   nextEvent, sockVars, cmdVars, extVars>>

\* this.setLastCursorPos(newCursorPos) in handleCursorPosMessage
setLastCursorPos(pos) ==
    /\ lastCursorPos' = [lastCursorPos EXCEPT !["websocket"] = pos]
    /\ lastAccepted' = [pos |-> pos, origin |-> "inbound"]
    /\ lastInbound' = [lastInbound EXCEPT !.outcome = "stored"]

\* handleCursorPosMessage that never opens the target file
HandlerBuftypeNeverOpens ==
    /\ rpcQueue # <<>>
    /\ HeadTask.kind = "inbound"
    /\ HeadTask.pc = "buftype"
    /\ Suspend([HeadTask EXCEPT !.pc = "cursor"])
    /\ setLastCursorPos(HeadTask.np)
    /\ UNCHANGED <<editorVars, debounceVars, lastSync, nextEvent, sockVars, cmdVars, extVars>>

\* handleCursorPosMessage: await eval("&buftype"), then tabnew, edit or -
\* when the buffer is already the right one - setLastCursorPos
HandlerBuftype ==
    /\ rpcQueue # <<>>
    /\ HeadTask.kind = "inbound"
    /\ HeadTask.pc = "buftype"
    /\ IF buftype = "terminal"
       THEN /\ Suspend([HeadTask EXCEPT !.pc = "tabnew"])
            /\ UNCHANGED <<lastCursorPos, lastAccepted, lastInbound>>
       ELSE IF HeadTask.cp # HeadTask.np.path
       THEN /\ Suspend([HeadTask EXCEPT !.pc = "edit"])
            /\ UNCHANGED <<lastCursorPos, lastAccepted, lastInbound>>
       ELSE /\ Suspend([HeadTask EXCEPT !.pc = "cursor"])
            /\ setLastCursorPos(HeadTask.np)
    /\ UNCHANGED <<editorVars, debounceVars, lastSync, nextEvent, sockVars, cmdVars, extVars>>

\* handleCursorPosMessage: Neovim runs "tabnew path" or "edit path", then
\* setLastCursorPos
HandlerOpen ==
    /\ rpcQueue # <<>>
    /\ HeadTask.kind = "inbound"
    /\ HeadTask.pc \in {"tabnew", "edit"}
    /\ curPath' = HeadTask.np.path
    /\ curLine' = 1
    /\ curCol' = 1
    /\ Suspend([HeadTask EXCEPT !.pc = "cursor"])
    /\ setLastCursorPos(HeadTask.np)
    /\ UNCHANGED <<debounceVars, lastSync, nextEvent, sockVars, cmdVars, extVars>>

\* handleCursorPosMessage: Neovim runs "noautocmd call cursor(line, col)"
HandlerCursor ==
    /\ rpcQueue # <<>>
    /\ HeadTask.kind = "inbound"
    /\ HeadTask.pc = "cursor"
    /\ curLine' = cursorLine(curPath, HeadTask.np.line)
    /\ curCol' = cursorCol(curPath, HeadTask.np.line, HeadTask.np.col)
    /\ Finish
    /\ lastInbound' = [lastInbound EXCEPT !.outcome = "moved"]
    /\ UNCHANGED <<curPath, lastCursorPos, debounceVars, lastAccepted, lastSync,
                   nextEvent, sockVars, cmdVars, extVars>>

(* ------------------------------- the user ------------------------------ *)
\* the user moves the cursor inside the current buffer
UserMove(pos, max) ==
    /\ nextEvent <= max
    /\ pos \in ValidPositions(curPath)
    /\ pos # Pos(curPath, curLine, curCol)
    /\ nextEvent' = nextEvent + 1
    /\ curLine' = pos.line
    /\ curCol' = pos.col
    /\ UNCHANGED <<curPath, lastCursorPos, rpcQueue, debounceVars, lastAccepted,
                   lastSync, lastInbound, sockVars, cmdVars, extVars>>

\* the user switches to another buffer (a file or a terminal)
UserEdit(path, max) ==
    /\ nextEvent <= max
    /\ path # curPath
    /\ nextEvent' = nextEvent + 1
    /\ curPath' = path
    /\ curLine' = 1
    /\ curCol' = 1
    /\ UNCHANGED <<lastCursorPos, rpcQueue, debounceVars, lastAccepted,
                   lastSync, lastInbound, sockVars, cmdVars, extVars>>

(* ----------------------------- SpecCursor ------------------------------ *)
\* a running server with one open connection, editor on line 1 of /a
InitCursor ==
    /\ InitCursorVars
    /\ InitExtVars
    /\ sockets = {1}
    /\ readyState = [s \in SocketIds |-> IF s = 1 THEN "OPEN" ELSE "NEW"]
    /\ wire = [s \in SocketIds |-> IF s = 1 THEN <<PingMsg>> ELSE <<>>]
    /\ pendingRequests = <<>>
    /\ timerState = [k \in CallIds |-> "none"]
    /\ unknownResponses = {}
    /\ settled = [k \in CallIds |-> <<>>]
    /\ nextCall = 1
    /\ servers = {1}
    /\ closing = {}
    /\ currentServer = 1
    /\ awaiting = {}
    /\ nextOp = 2

NextCursor ==
    \/ StartSync(MaxEvents)
    \/ SyncRead
    \/ SyncFinish
    \/ AdvanceTime
    \/ Flush
    \/ \E s \in SocketIds, payload \in InboundPositions : ReceiveCursorPos(s, payload)
    \/ HandlerRead
    \/ HandlerDecide
    \/ HandlerBuftype
    \/ HandlerOpen
    \/ HandlerCursor
    \/ \E pos \in ValidPositions(curPath) : UserMove(pos, MaxEvents)
    \/ \E path \in Buffers : UserEdit(path, MaxEvents)

SpecCursor == InitCursor /\ [][NextCursor]_vars

(* ---------------------------- SpecOutbound ----------------------------- *)
\* the outbound path alone: the peer sends no CursorPos
NextOutbound ==
    \/ StartSync(MaxOutbound)
    \/ SyncRead
    \/ SyncFinish
    \/ AdvanceTime
    \/ Flush
    \/ \E pos \in ValidPositions(curPath) : UserMove(pos, MaxOutbound)
    \/ \E path \in Buffers : UserEdit(path, MaxOutbound)

SpecOutbound == InitCursor /\ [][NextOutbound]_vars

(* ---------------------- fire-and-forget commands ----------------------- *)
\* the branch broadcast takes: no socket registered, none delivered, delivered
broadcastOutcome(throwing) ==
    IF Cardinality(sockets) = 0 THEN "noClients"
    ELSE IF OpenSockets \ throwing = {} THEN "noActive"
    ELSE "sent"

\* what one broadcast of a command found and did
BroadcastRecord(msg, throwing) ==
    [n |-> lastBroadcast.n + 1, msg |-> msg, found |-> sockets,
     open |-> OpenSockets, throwing |-> throwing,
     outcome |-> broadcastOutcome(throwing), result |-> "resolved"]

\* dispatcher.executeVSCodeCommand(command, args): build the message,
\* broadcast it, resolve
executeVSCodeCommand(command, throwing) ==
    /\ lastBroadcast.n < MaxBroadcasts
    /\ sockets' = broadcastSockets
    /\ wire' = broadcastWire(ExecuteCommandMsg(command, 0), throwing)
    /\ lastBroadcast' = BroadcastRecord(ExecuteCommandMsg(command, 0), throwing)
    /\ UNCHANGED <<readyState, reqVars, srvVars, cursorVars, auxVars, luaVars, vsVars>>

(* ---------------------------- SpecRegistry ----------------------------- *)
\* a running server with no connection yet
InitRegistry ==
    /\ InitCursorVars
    /\ InitExtVars
    /\ sockets = {}
    /\ readyState = [s \in SocketIds |-> "NEW"]
    /\ wire = [s \in SocketIds |-> <<>>]
    /\ pendingRequests = <<>>
    /\ timerState = [k \in CallIds |-> "none"]
    /\ unknownResponses = {}
    /\ settled = [k \in CallIds |-> <<>>]
    /\ nextCall = 1
    /\ servers = {1}
    /\ closing = {}
    /\ currentServer = 1
    /\ awaiting = {}
    /\ nextOp = 2

NextRegistry ==
    \/ \E s \in SocketIds : Accept(s)
    \/ \E s \in SocketIds, throws \in BOOLEAN : OnOpen(s, throws)
    \/ \E s \in SocketIds : StartClose(s)
    \/ \E s \in SocketIds : OnClose(s)
    \/ \E s \in SocketIds : OnError(s)
    \/ \E throwing \in SUBSET OpenSockets : executeVSCodeCommand("cmdA", throwing)

SpecRegistry == InitRegistry /\ [][NextRegistry]_vars

(* ------------------------- commands with callback ---------------------- *)
\* ensureNumber(arg) returns (it throws otherwise)
ensureNumber(arg) == arg.type = "number"

AsyncCommandMsg(command, callbackId) ==
    [sender |-> "vim", case |-> "executeCommand", command |-> command,
     requestId |-> 0, callbackId |-> callbackId]

\* M.action(name, opts) with Denops loaded: add_callback when a callback is
\* given, denops_notify("executeVSCodeCommandAsync"); when the notification
\* fails the callback is called with an error
action(name, hasCallback, success) ==
    /\ Len(notified) + lastBroadcast.n < MaxBroadcasts
    /\ hasCallback => requestState.id < MaxCallbacks
    /\ LET id == requestState.id + 1
           callback_id == IF hasCallback THEN Number(id) ELSE Undefined
       IN  /\ requestState' =
                 IF hasCallback
                 THEN [id |-> id, callbacks |-> requestState.callbacks \cup {id}]
                 ELSE requestState
           /\ IF success
              THEN /\ notified' = Append(notified,
                        [command |-> name, callback_id |-> callback_id])
                   /\ UNCHANGED invoked
              ELSE /\ invoked' =
                        IF hasCallback
                        THEN [invoked EXCEPT ![id] =
                                Append(@, [err |-> "Failed to send command", ret |-> "nil"])]
                        ELSE invoked
                   /\ UNCHANGED notified
    /\ UNCHANGED <<scheduled, cbResponses, sockVars, cmdVars, cursorVars, auxVars, regVars, vsVars>>

\* dispatcher.executeVSCodeCommandAsync(command, args, callback_id)
executeVSCodeCommandAsync(throwing) ==
    /\ notified # <<>>
    /\ notified' = Tail(notified)
    /\ LET command == Head(notified).command
           callback_id == Head(notified).callback_id
           message == AsyncCommandMsg(command,
                        IF callback_id # Undefined THEN String(callback_id.val)
                        ELSE Undefined)
       IN  /\ sockets' = broadcastSockets
           /\ wire' = broadcastWire(message, throwing)
           /\ lastBroadcast' = BroadcastRecord(message, throwing)
    /\ UNCHANGED <<readyState, requestState, invoked, scheduled, cbResponses,
                   reqVars, srvVars, cursorVars, auxVars, vsVars>>

\* M.invoke_callback(id, result, is_error): vim.schedule of the closure
invoke_callback(id, result, is_error) ==
    scheduled' = Append(scheduled, [id |-> id, result |-> result, is_error |-> is_error])

\* dispatcher.handleCommandResult(params): ensureNumber(callback_id), then
\* the luaeval of invoke_callback
handleCommandResult(callback_id, result, is_error) ==
    IF ensureNumber(callback_id)
    THEN invoke_callback(callback_id.val, result, is_error)
    ELSE UNCHANGED scheduled

\* socket.onmessage: an executeCommand message from "vscode" with a
\* callbackId and no requestId
OnCallbackResponse(s, callbackId, result, isError) ==
    /\ Len(cbResponses) < MaxResponses
    /\ readyState[s] = "OPEN"
    /\ cbResponses' = Append(cbResponses,
          [callbackId |-> callbackId, result |-> result, isError |-> isError])
    /\ handleCommandResult(callbackId, result, isError)
    /\ UNCHANGED <<requestState, invoked, notified, sockVars, cmdVars, cursorVars, auxVars,
                   regVars, vsVars>>

\* the closure scheduled by invoke_callback runs: take the callback out of
\* the table and call it
InvokeScheduled ==
    /\ scheduled # <<>>
    /\ scheduled' = Tail(scheduled)
    /\ LET id == Head(scheduled).id
           result == Head(scheduled).result
       IN  /\ requestState' = [requestState EXCEPT !.callbacks = @ \ {id}]
           /\ invoked' =
                IF id \in requestState.callbacks
                THEN [invoked EXCEPT ![id] =
                        Append(@, IF Head(scheduled).is_error
                                  THEN [err |-> result, ret |-> "nil"]
                                  ELSE [err |-> "nil", ret |-> result])]
                ELSE invoked
    /\ UNCHANGED <<notified, cbResponses, sockVars, cmdVars, cursorVars, auxVars, regVars, vsVars>>

\* the callback ids the peer on socket s can answer: the ones it was sent,
\* and the same ids as JSON numbers
AnswerableIds(s) ==
    {wire[s][i].callbackId : i \in {j \in 1..Len(wire[s]) : wire[s][j].command # "_ping"}}
      \cup {Number(n) : n \in CallbackIds}

(* ---------------------------- SpecCallback ----------------------------- *)
NextCallback ==
    \/ \E s \in CmdSockets : Accept(s)
    \/ \E s \in CmdSockets, throws \in BOOLEAN : OnOpen(s, throws)
    \/ \E s \in CmdSockets : StartClose(s)
    \/ \E s \in CmdSockets : OnClose(s)
    \/ \E s \in CmdSockets : OnError(s)
    \/ \E hasCallback \in BOOLEAN, success \in BOOLEAN : action("cmdA", hasCallback, success)
    \/ \E throwing \in SUBSET OpenSockets : executeVSCodeCommandAsync(throwing)
    \/ \E s \in CmdSockets, r \in Responses :
         \E callbackId \in AnswerableIds(s) \ {Undefined} :
            OnCallbackResponse(s, callbackId, r.result, r.isError)
    \/ InvokeScheduled

SpecCallback == InitRegistry /\ [][NextCallback]_vars

(* ------------------------------ VSCode --------------------------------- *)
\* the CursorPos payloads Neovim sends (1-based line and column)
VsPayloads == {Pos("/a", 1, 1), Pos("/a", 1, 3), Pos("/a", 2, 1), Pos("/b", 1, 1)}

\* document.lineCount
lineCount(path) == Len(LineLengths(path))

\* document.lineAt(line) has a line to return (it throws otherwise)
lineAtExists(path, line) == line \in 0..(lineCount(path) - 1)

\* document.lineAt(line).text.length
lineAtLength(path, line) == LineLengths(path)[line + 1]

\* the position an editor keeps when its selection is set to (line, character)
validatePosition(path, line, character) ==
    LET l == Min(Max(line, 0), lineCount(path) - 1)
    IN  [line |-> l, character |-> Min(Max(character, 0), lineAtLength(path, l))]

\* getCursorPosition(): path, line and column (1-based) of the active editor
getCursorPosition(path, sel) == Pos(path, sel.line + 1, sel.character + 1)

\* the positions the user can put the caret on in the active editor
VsPositions(path) ==
    {validatePosition(path, l, c) : l \in 0..1, c \in 0..1}

\* handleMessage: a cursorPos message; handleCursorPos returns when the
\* window is focused, else it waits for openTextDocument and showTextDocument
VsReceive(payload) ==
    /\ nextVsEvent <= MaxVsEvents
    /\ nextVsEvent' = nextVsEvent + 1
    /\ IF vsFocused
       THEN /\ vsLast' = [payload |-> payload, outcome |-> "focused"]
            /\ UNCHANGED vsTasks
       ELSE /\ vsTasks' = Append(vsTasks, [payload |-> payload, editor |-> vsActive])
            /\ UNCHANGED vsLast
    /\ UNCHANGED <<vsActive, vsSel, vsFocused, lastCursorPosition, vsPending, vsSent,
                   sockVars, cmdVars, cursorVars, auxVars, regVars, luaVars, selVars>>

\* the position handleCursorPos compares with lastCursorPosition: the
\* position of the editor when the incoming one is beyond the document
vsCursorPos(payload, editor) ==
    IF lineCount(editor) - 1 < payload.line
       \/ lineAtLength(editor, payload.line) < payload.col
    THEN [line |-> vsSel[editor].line, col |-> vsSel[editor].character]
    ELSE [line |-> payload.line, col |-> payload.col]

\* handleCursorPos after showTextDocument: clamp, dedupe,
\* updateLastCursorPosition, setCursorPosition; the selection change of a
\* focused window calls debouncedSendCursorPos
VsApply ==
    /\ vsTasks # <<>>
    /\ LET payload == Head(vsTasks).payload
           editor == Head(vsTasks).editor
       IN  /\ vsTasks' = Tail(vsTasks)
           /\ vsActive' = payload.path
           /\ IF ~lineAtExists(editor, payload.line)
              THEN /\ vsLast' = [payload |-> payload, outcome |-> "threw"]
                   /\ UNCHANGED <<vsSel, vsAnchor, lastCursorPosition, vsPending>>
              ELSE IF lastCursorPosition =
                        Pos(payload.path, vsCursorPos(payload, editor).line,
                            vsCursorPos(payload, editor).col)
              THEN /\ vsLast' = [payload |-> payload, outcome |-> "suppressed"]
                   /\ UNCHANGED <<vsSel, vsAnchor, lastCursorPosition, vsPending>>
              ELSE /\ vsLast' = [payload |-> payload, outcome |-> "applied"]
                   /\ lastCursorPosition' = payload
                   /\ vsSel' = [vsSel EXCEPT ![payload.path] =
                        validatePosition(payload.path, payload.line - 1, payload.col - 1)]
                   /\ vsAnchor' = [vsAnchor EXCEPT ![payload.path] = vsSel'[payload.path]]
                   /\ vsPending' =
                        IF vsFocused /\ <<vsAnchor', vsSel'>> # <<vsAnchor, vsSel>>
                        THEN getCursorPosition(payload.path, vsSel'[payload.path])
                        ELSE vsPending
    /\ UNCHANGED <<vsFocused, vsSent, nextVsEvent,
                   sockVars, cmdVars, cursorVars, auxVars, regVars, luaVars, selLog>>

\* the window gains or loses focus
VsFocus ==
    /\ nextVsEvent <= MaxVsEvents
    /\ nextVsEvent' = nextVsEvent + 1
    /\ vsFocused' = ~vsFocused
    /\ UNCHANGED <<vsActive, vsSel, lastCursorPosition, vsTasks, vsPending, vsSent,
                   vsLast, sockVars, cmdVars, cursorVars, auxVars, regVars, luaVars, selVars>>

\* the user moves the caret of the focused window:
\* onDidChangeTextEditorSelection calls debouncedSendCursorPos
VsUserMove(sel) ==
    /\ nextVsEvent <= MaxVsEvents
    /\ vsFocused
    /\ sel # vsSel[vsActive] \/ sel # vsAnchor[vsActive]
    /\ nextVsEvent' = nextVsEvent + 1
    /\ vsSel' = [vsSel EXCEPT ![vsActive] = sel]
    /\ vsAnchor' = [vsAnchor EXCEPT ![vsActive] = sel]
    /\ vsPending' = getCursorPosition(vsActive, sel)
    /\ UNCHANGED <<vsActive, vsFocused, lastCursorPosition, vsTasks, vsSent, vsLast,
                   sockVars, cmdVars, cursorVars, auxVars, regVars, luaVars, selLog>>

\* the debounced sender runs: dedupe against lastCursorPosition, else store
\* the position and hand a CursorPos message to sendMessage
VsSendCursorPos ==
    /\ vsPending # NoPos
    /\ vsPending' = NoPos
    /\ IF lastCursorPosition = vsPending
       THEN UNCHANGED <<lastCursorPosition, vsSent>>
       ELSE /\ lastCursorPosition' = vsPending
            /\ vsSent' = Append(vsSent, [sender |-> "vscode", case |-> "cursorPos",
                                         path |-> vsPending.path,
                                         line |-> vsPending.line,
                                         col |-> vsPending.col])
    /\ UNCHANGED <<vsActive, vsSel, vsFocused, vsTasks, vsLast, nextVsEvent,
                   sockVars, cmdVars, cursorVars, auxVars, regVars, luaVars, selVars>>

\* the SelectionPos payloads Neovim sends (1-based lines and columns)
SelectionPayloads ==
    {[path |-> "/a", startLine |-> 1, startCol |-> 1, endLine |-> 1, endCol |-> 2],
     [path |-> "/a", startLine |-> 1, startCol |-> 2, endLine |-> 1, endCol |-> 2],
     [path |-> "/b", startLine |-> 1, startCol |-> 1, endLine |-> 1, endCol |-> 2]}

\* the arguments handleSelectionPos hands to selectRange (0-based)
selectRangeArgs(payload) ==
    [startLine |-> payload.startLine - 1, startCharacter |-> payload.startCol - 1,
     endLine |-> payload.endLine - 1, endCharacter |-> payload.endCol - 1]

\* selectRange: the selection of the active editor runs from the start
\* position (the anchor) to the end position (the active end); the selection
\* change of a focused window sends the caret through debouncedSendCursorPos
\* when the selection is empty and a SelectionPos message otherwise
selectRange(args) ==
    /\ selectRangeCalls' = Append(selectRangeCalls, args)
    /\ vsAnchor' = [vsAnchor EXCEPT ![vsActive] =
            validatePosition(vsActive, args.startLine, args.startCharacter)]
    /\ vsSel' = [vsSel EXCEPT ![vsActive] =
            validatePosition(vsActive, args.endLine, args.endCharacter)]
    /\ IF ~vsFocused \/ <<vsAnchor', vsSel'>> = <<vsAnchor, vsSel>>
       THEN UNCHANGED <<vsPending, vsSent>>
       ELSE IF vsAnchor'[vsActive] = vsSel'[vsActive]
       THEN /\ vsPending' = getCursorPosition(vsActive, vsSel'[vsActive])
            /\ UNCHANGED vsSent
       ELSE /\ vsSent' = Append(vsSent,
                    [sender |-> "vscode", case |-> "selectionPos", path |-> vsActive,
                     startLine |-> vsAnchor'[vsActive].line,
                     startCol |-> vsAnchor'[vsActive].character,
                     endLine |-> vsSel'[vsActive].line,
                     endCol |-> vsSel'[vsActive].character])
            /\ UNCHANGED vsPending

\* handleSelectionPos with a comparison against the selection the editor
\* already has
handleSelectionPosDedupes(payload) ==
    /\ nextVsEvent <= MaxVsEvents
    /\ nextVsEvent' = nextVsEvent + 1
    /\ selectionReceived' = Append(selectionReceived, payload)
    /\ IF /\ payload.path = vsActive
          /\ \/ selectRangeCalls = <<>>
             \/ selectRangeCalls[Len(selectRangeCalls)] # selectRangeArgs(payload)
       THEN selectRange(selectRangeArgs(payload))
       ELSE UNCHANGED <<selectRangeCalls, vsAnchor, vsSel, vsPending, vsSent>>
    /\ UNCHANGED <<vsActive, vsFocused, lastCursorPosition, vsTasks, vsLast,
                   sockVars, cmdVars, cursorVars, auxVars, regVars, luaVars>>

\* handleMessage: a selectionPos message; handleSelectionPos calls
\* selectRange when the payload names the document of the active editor
handleSelectionPos(payload) ==
    /\ nextVsEvent <= MaxVsEvents
    /\ nextVsEvent' = nextVsEvent + 1
    /\ selectionReceived' = Append(selectionReceived, payload)
    /\ IF payload.path = vsActive
       THEN selectRange(selectRangeArgs(payload))
       ELSE UNCHANGED <<selectRangeCalls, vsAnchor, vsSel, vsPending, vsSent>>
    /\ UNCHANGED <<vsActive, vsFocused, lastCursorPosition, vsTasks, vsLast,
                   sockVars, cmdVars, cursorVars, auxVars, regVars, luaVars>>

\* the frames handleMessage finds no variant in: text that is not JSON,
\* JSON without a payload, a payload whose case is none of the four
MalformedKinds == {"notJson", "noPayload", "unknownCase"}

\* handleMessage: JSON.parse and message.payload.case are evaluated outside
\* any try block, so what they throw rejects the promise handleMessage
\* returns, and the listener drops that promise; a case that matches no
\* branch falls through
handleMessage(kind) ==
    /\ nextVsEvent <= MaxVsEvents
    /\ nextVsEvent' = nextVsEvent + 1
    /\ vsLastMessage' =
          [n |-> vsLastMessage.n + 1, kind |-> kind,
           outcome |-> IF kind \in {"notJson", "noPayload"}
                       THEN "unhandledRejection" ELSE "dropped"]
    /\ UNCHANGED <<vsActive, vsSel, vsFocused, lastCursorPosition, vsTasks, vsPending,
                   vsSent, vsLast, selVars, exceptRcv, received,
                   sockVars, cmdVars, cursorVars, regVars, luaVars>>

(* ----------------------------- SpecVscode ------------------------------ *)
NextVscode ==
    \/ \E kind \in MalformedKinds : handleMessage(kind)
    \/ \E payload \in VsPayloads : VsReceive(payload)
    \/ \E payload \in SelectionPayloads : handleSelectionPos(payload)
    \/ VsApply
    \/ VsFocus
    \/ \E sel \in VsPositions(vsActive) : VsUserMove(sel)
    \/ VsSendCursorPos

SpecVscode == InitCmd /\ [][NextVscode]_vars

\* the request timers fire: setTimeout callbacks run once their delay has passed
FairSpecCmd == SpecCmd /\ \A k \in CallIds : WF_vars(TimeoutFire(k))

(* --------------------------- dispatcher.start -------------------------- *)
StartTimeoutMs == 10000
StartTickMs == 5000

\* the ports the system hands out for { port: 0 }
Ports == 49152..49153

\* the values start returns
Started(port) == [success |-> TRUE, port |-> port, error |-> ""]
Failed(error) == [success |-> FALSE, port |-> 0, error |-> error]

Returned(result) == [pc |-> "returned", timer |-> 0, result |-> result]

\* a start that awaits runWsServer alone, without a timer
RacingWithoutTimer == [pc |-> "racing", timer |-> 0 - 1, result |-> NoResult]

\* a start suspended in Promise.race([runWsServer(denops), timeoutPromise])
Racing == [pc |-> "racing", timer |-> StartTimeoutMs, result |-> NoResult]

\* dispatcher.start: arm the 10 s timer and call runWsServer; with no
\* current server Deno.serve runs at once and start returns the port or the
\* error, else runWsServer suspends in shutdown() and start in Promise.race
start(ok, port) ==
    /\ nextOp <= MaxOps
    /\ nextOp' = nextOp + 1
    /\ IF currentServer = NoServer
       THEN /\ IF ok
               THEN /\ servers' = servers \cup {nextOp}
                    /\ currentServer' = nextOp
                    /\ serverPort' = [serverPort EXCEPT ![nextOp] = port]
                    /\ starts' = [starts EXCEPT ![nextOp] = Returned(Started(port))]
               ELSE /\ starts' = [starts EXCEPT ![nextOp] = Returned(Failed("bind"))]
                    /\ UNCHANGED <<servers, currentServer, serverPort>>
            /\ UNCHANGED <<closing, awaiting>>
       ELSE /\ closing' = closing \cup {currentServer}
            /\ awaiting' = awaiting \cup
                  {[id |-> nextOp, kind |-> "start", srv |-> currentServer]}
            /\ starts' = [starts EXCEPT ![nextOp] = Racing]
            /\ UNCHANGED <<servers, currentServer, serverPort>>
    /\ UNCHANGED <<sockVars, reqVars, cursorVars, regVars, luaVars, vsVars,
                   exceptStart>>

\* runWsServer resumed after shutdown(): currentServer = null, then
\* Deno.serve; the start call that is still in Promise.race returns
startResume(op, ok, port) ==
    /\ op \in awaiting
    /\ op.kind = "start"
    /\ awaiting' = awaiting \ {op}
    /\ closing' = closing \ {op.srv}
    /\ IF ok
       THEN /\ servers' = (servers \ {op.srv}) \cup {op.id}
            /\ currentServer' = op.id
            /\ serverPort' = [serverPort EXCEPT ![op.id] = port]
       ELSE /\ servers' = servers \ {op.srv}
            /\ currentServer' = NoServer
            /\ UNCHANGED serverPort
    /\ starts' = IF starts[op.id].pc = "racing"
                 THEN [starts EXCEPT ![op.id] =
                         Returned(IF ok THEN Started(port) ELSE Failed("bind"))]
                 ELSE starts
    /\ UNCHANGED <<nextOp, sockVars, reqVars, cursorVars, regVars, luaVars, vsVars,
                   exceptStart>>

\* time passes for the timers of the start calls
startTick ==
    /\ \E id \in 1..MaxOps : starts[id].pc = "racing" /\ starts[id].timer > 0
    /\ starts' = [id \in 1..MaxOps |->
                    IF starts[id].pc = "racing"
                    THEN [starts[id] EXCEPT !.timer = Max(0, @ - StartTickMs)]
                    ELSE starts[id]]
    /\ UNCHANGED <<serverPort, sockVars, cmdVars, cursorVars, regVars, luaVars, vsVars,
                   exceptStart>>

\* the timer of a start call fires first: timeoutPromise rejects, the catch
\* block returns the failure
startTimeout(id) ==
    /\ starts[id].pc = "racing"
    /\ starts[id].timer = 0
    /\ starts' = [starts EXCEPT ![id] = Returned(Failed("timeout"))]
    /\ UNCHANGED <<serverPort, sockVars, cmdVars, cursorVars, regVars, luaVars, vsVars,
                   exceptStart>>

(* ------------------------------ SpecStart ------------------------------ *)
NextStart ==
    \/ \E ok \in BOOLEAN, port \in Ports : start(ok, port)
    \/ \E op \in awaiting, ok \in BOOLEAN, port \in Ports : startResume(op, ok, port)
    \/ startTick
    \/ \E id \in 1..MaxOps : startTimeout(id)
    \/ StopBegin
    \/ \E op \in awaiting : StopResume(op)

SpecStart == InitCmd /\ [][NextStart]_vars

\* the timers run: time passes and a timer that has run out fires
FairSpecStart ==
    SpecStart /\ WF_vars(startTick) /\ \A id \in 1..MaxOps : WF_vars(startTimeout(id))

(* ------------------------- VSCode: connect() -------------------------- *)
\* retryOrFail: schedule connectWithRetry while retryCount < maxRetries, else
\* show the failure and set this.socket to null
retryOrFail(c) ==
    IF c.retryCount < c.maxRetries
    THEN [c EXCEPT !.retryCount = @ + 1, !.scheduled = @ + 1]
    ELSE [c EXCEPT !.failures = @ + 1, !.socket = 0]

\* connectWithRetry: this.socket = new WebSocket(...); the attempt is
\* counted as late when the failure has been shown before
connectWithRetry(c) ==
    [c EXCEPT !.attempts = @ + 1, !.socket = c.attempts + 1,
              !.lateAttempts = IF c.failures > 0 THEN @ + 1 ELSE @]

\* the socket and the 5 s timer of the attempt connectWithRetry has started
attStarted(c) ==
    [a \in AttemptIds |->
        IF a = c.socket /\ att[a].readyState = "NEW"
        THEN [readyState |-> "CONNECTING", timeout |-> "armed"]
        ELSE att[a]]

\* connect(maxRetries, retryInterval) with a server address and no socket:
\* the first connectWithRetry runs at once
connect(maxRetries) ==
    /\ conn.pc = "idle"
    /\ conn' = connectWithRetry([conn EXCEPT !.pc = "connecting",
                                             !.maxRetries = maxRetries])
    /\ att' = attStarted(conn')
    /\ UNCHANGED <<sockVars, cmdVars, cursorVars, regVars, luaVars, vsVars, exceptConn, hdlVars>>

\* a connectWithRetry scheduled by retryOrFail runs
ScheduledAttempt ==
    /\ conn.scheduled > 0
    /\ conn.attempts < MaxRetries + 2
    /\ conn' = connectWithRetry([conn EXCEPT !.scheduled = @ - 1])
    /\ att' = attStarted(conn')
    /\ UNCHANGED <<sockVars, cmdVars, cursorVars, regVars, luaVars, vsVars, exceptConn, hdlVars>>

\* isConnected(): this.socket is set and OPEN
isConnected(c, sockets_) == c.socket # 0 /\ sockets_[c.socket].readyState = "OPEN"

\* the messages of pendingMessages with this payload case
queuedOf(pending, case) == SelectSeq(pending, LAMBDA m : m.case = case)

\* onopen: the latest queued cursorPos and the latest queued selectionPos
latestQueued(pending) ==
    LET cur == queuedOf(pending, "cursorPos")
        sel == queuedOf(pending, "selectionPos")
    IN  (IF Len(cur) > 0 THEN <<cur[Len(cur)]>> ELSE <<>>)
        \o (IF Len(sel) > 0 THEN <<sel[Len(sel)]>> ELSE <<>>)

\* onopen, the pendingMessages part: this.socket?.send of the latest queued
\* messages, then pendingMessages = []. send of the ws library throws on a
\* CONNECTING socket (the handler ends there), delivers on an OPEN one and
\* drops the data on a CLOSING or CLOSED one.
sendQueued(c, sockets_, pending, sent) ==
    LET toSend == latestQueued(pending)
        target == c.socket
    IN  IF Len(pending) = 0
        THEN [pending |-> pending, sent |-> sent]
        ELSE IF Len(toSend) > 0 /\ target # 0
                /\ sockets_[target].readyState = "CONNECTING"
        THEN [pending |-> pending, sent |-> sent]
        ELSE [pending |-> <<>>,
              sent |-> IF isConnected(c, sockets_)
                       THEN sent \o [i \in 1..Len(toSend) |->
                                       [to |-> target, msg |-> toSend[i]]]
                       ELSE sent]

\* onclose retries: retryCount < maxRetries, no open connection and a close
\* code other than 1000 and 1001
oncloseRetries(c, sockets_, code) ==
    c.retryCount < c.maxRetries /\ ~isConnected(c, sockets_) /\ code \notin {1000, 1001}

\* onclose, the pendingMessages part: emptied when no retry is made
oncloseQueue(c, sockets_, code, pending) ==
    IF oncloseRetries(c, sockets_, code) THEN pending ELSE <<>>

\* onclose, the part on retryCount, this.socket and connectionReady
onclose(c, sockets_, code) ==
    IF oncloseRetries(c, sockets_, code)
    THEN retryOrFail([c EXCEPT !.connectionReady = FALSE])
    ELSE [c EXCEPT !.connectionReady = FALSE]

\* the attempt fails: the socket emits error, then close with code 1006;
\* onerror calls retryOrFail, onclose calls it again while
\* retryCount < maxRetries and no connection is open
AttemptFails(a) ==
    /\ att[a].readyState \in {"CONNECTING", "CLOSING"}
    /\ att[a].timeout # "cleared"
    /\ att' = [att EXCEPT ![a] = [readyState |-> "CLOSED",
                                  timeout |-> IF att[a].timeout = "armed"
                                              THEN "cleared" ELSE att[a].timeout]]
    /\ LET afterError == retryOrFail(conn)
       IN  /\ conn' = onclose(afterError, att', 1006)
           /\ pendingMessages' = oncloseQueue(afterError, att', 1006, pendingMessages)
    /\ UNCHANGED <<sockSent, nextSend, listening, requests>>
    /\ UNCHANGED <<sockVars, cmdVars, cursorVars, regVars, luaVars, vsVars, exceptConn>>

\* the attempt succeeds: onopen clears the timer, gives this.socket the
\* message listener, marks the connection ready and sends the queue
AttemptOpens(a) ==
    /\ att[a].readyState = "CONNECTING"
    /\ att' = [att EXCEPT ![a] = [readyState |-> "OPEN",
                                  timeout |-> IF att[a].timeout = "armed"
                                              THEN "cleared" ELSE att[a].timeout]]
    /\ conn' = [conn EXCEPT !.connectionReady = TRUE]
    /\ listening' = IF conn.socket # 0 THEN listening \cup {conn.socket} ELSE listening
    /\ LET q == sendQueued(conn', att', pendingMessages, sockSent)
       IN  /\ pendingMessages' = q.pending
           /\ sockSent' = q.sent
    /\ UNCHANGED <<nextSend, requests>>
    /\ UNCHANGED <<sockVars, cmdVars, cursorVars, regVars, luaVars, vsVars, exceptConn>>

\* the 5 s timer of the attempt fires: when this.socket is set and not OPEN
\* it is closed and retryOrFail is called
AttemptTimeout(a) ==
    /\ att[a].timeout = "armed"
    /\ IF conn.socket # 0 /\ att[conn.socket].readyState # "OPEN"
       THEN /\ att' = [b \in AttemptIds |->
                         [readyState |-> IF b = conn.socket
                                            /\ att[b].readyState = "CONNECTING"
                                         THEN "CLOSING" ELSE att[b].readyState,
                          timeout |-> IF b = a THEN "fired" ELSE att[b].timeout]]
            /\ conn' = retryOrFail(conn)
       ELSE /\ att' = [att EXCEPT ![a].timeout = "fired"]
            /\ UNCHANGED conn
    /\ UNCHANGED <<sockVars, cmdVars, cursorVars, regVars, luaVars, vsVars, exceptConn, hdlVars>>

(* ----------------------------- SpecConnect ----------------------------- *)
NextConnect ==
    \/ \E maxRetries \in 0..MaxRetries : connect(maxRetries)
    \/ ScheduledAttempt
    \/ \E a \in AttemptIds : AttemptFails(a)
    \/ \E a \in AttemptIds : AttemptOpens(a)
    \/ \E a \in AttemptIds : AttemptTimeout(a)

SpecConnect == InitCmd /\ [][NextConnect]_vars

(* --------------------------- VSCode: handler --------------------------- *)
QueueLimit == 50
MaxSends == 3

\* the close codes of a connection that was open: normal closure, going
\* away, abnormal closure
CloseCodes == {1000, 1001, 1006}

\* a message of the handler: a position message of the extension (n is the
\* number of the sendMessage call) or the response to request requestId
Message(case, n, requestId, result, isError) ==
    [case |-> case, n |-> n, requestId |-> requestId, result |-> result,
     isError |-> isError]

\* a connection that was open closes: socket.onclose without an error event
SocketCloses(a, code) ==
    /\ att[a].readyState \in {"OPEN", "CLOSING"}
    /\ att[a].timeout = "cleared"
    /\ att' = [att EXCEPT ![a].readyState = "CLOSED"]
    /\ conn' = onclose(conn, att', code)
    /\ pendingMessages' = oncloseQueue(conn, att', code, pendingMessages)
    /\ UNCHANGED <<sockSent, nextSend, listening, requests>>
    /\ UNCHANGED <<sockVars, cmdVars, cursorVars, regVars, luaVars, vsVars, exceptConn>>

\* this.socket?.close(): a connecting or open socket starts closing
socketClose(c) ==
    [a \in AttemptIds |->
        IF a = c.socket /\ att[a].readyState \in {"CONNECTING", "OPEN"}
        THEN [att[a] EXCEPT !.readyState = "CLOSING"]
        ELSE att[a]]

\* the body shared by disconnect() and close()
teardown(pc) ==
    /\ conn.pc = "connecting"
    /\ att' = socketClose(conn)
    /\ conn' = [conn EXCEPT !.socket = 0, !.connectionReady = FALSE, !.pc = pc]
    /\ pendingMessages' = <<>>
    /\ UNCHANGED <<sockSent, nextSend, listening, requests>>
    /\ UNCHANGED <<sockVars, cmdVars, cursorVars, regVars, luaVars, vsVars, exceptConn>>

\* disconnect()
disconnect == teardown("disconnected")

\* close()
close == teardown("closed")

\* sendMessage queues cursorPos and selectionPos messages only
queuesCase(message) == message.case \in {"cursorPos", "selectionPos"}

\* sendMessage(message); throws: JSON.stringify(message) or socket.send throws
sendMessage(message, throws) ==
    IF ~conn.connectionReady
    THEN /\ pendingMessages' =
              IF queuesCase(message) /\ Len(pendingMessages) < QueueLimit
              THEN Append(pendingMessages, message)
              ELSE pendingMessages
         /\ UNCHANGED <<conn, sockSent>>
    ELSE IF conn.socket = 0
    THEN /\ conn' = [conn EXCEPT !.connectionReady = FALSE]
         /\ UNCHANGED <<pendingMessages, sockSent>>
    ELSE IF att[conn.socket].readyState # "OPEN"
    THEN /\ conn' = IF att[conn.socket].readyState # "CONNECTING"
                    THEN [conn EXCEPT !.connectionReady = FALSE]
                    ELSE conn
         /\ UNCHANGED <<pendingMessages, sockSent>>
    ELSE IF throws
    THEN /\ conn' = [conn EXCEPT !.connectionReady = FALSE]
         /\ UNCHANGED <<pendingMessages, sockSent>>
    ELSE /\ sockSent' = Append(sockSent, [to |-> conn.socket, msg |-> message])
         /\ UNCHANGED <<conn, pendingMessages>>

\* the extension sends a position message (sendCursorPos, sendSelection)
SendPosition(case) ==
    /\ nextSend <= MaxSends
    /\ conn.pc # "idle"
    /\ nextSend' = nextSend + 1
    /\ sendMessage(Message(case, nextSend, 0, "", FALSE), FALSE)
    /\ UNCHANGED <<att, listening, requests>>
    /\ UNCHANGED <<sockVars, cmdVars, cursorVars, regVars, luaVars, vsVars, exceptConn>>

\* sendCommandResponse(requestId, result, isError)
sendCommandResponse(requestId, result, isError, throws) ==
    sendMessage(Message("executeCommand", 0, requestId, result, isError), throws)

\* the commands the peer asks for, and what executing one gives: a result
\* (JSON.stringify of which may throw) or a thrown error
Commands == {"_ping", "cmdA"}
CommandOutcomes == {[ok |-> TRUE, result |-> "r1", serialisable |-> TRUE],
                    [ok |-> TRUE, result |-> "cyclic", serialisable |-> FALSE],
                    [ok |-> FALSE, result |-> "e1", serialisable |-> TRUE]}

\* handleExecuteCommand(payload) with a requestId, up to the first await:
\* _ping is answered at once, another command starts executing
handleExecuteCommand(a, k, command) ==
    /\ a \in listening
    /\ att[a].readyState = "OPEN"
    /\ requests[k].state = "none"
    /\ \A j \in RequestIds : j < k => requests[j].state # "none"
    /\ IF command = "_ping"
       THEN /\ requests' = [requests EXCEPT ![k] =
                              [state |-> "done", command |-> command, ok |-> TRUE,
                               result |-> "pong"]]
            /\ sendCommandResponse(k, "pong", FALSE, FALSE)
       ELSE /\ requests' = [requests EXCEPT ![k] =
                              [state |-> "executing", command |-> command,
                               ok |-> FALSE, result |-> ""]]
            /\ UNCHANGED <<conn, pendingMessages, sockSent>>
    /\ UNCHANGED <<att, nextSend, listening>>
    /\ UNCHANGED <<sockVars, cmdVars, cursorVars, regVars, luaVars, vsVars, exceptConn>>

\* isError of the response: false after the try block, true in the catch block
answersError(r) == ~r.ok

\* handleExecuteCommand resumed after vscode.commands.executeCommand: the
\* response is sent from the try block or from the catch block
ExecuteCommandReturns(k, r) ==
    /\ requests[k].state = "executing"
    /\ requests' = [requests EXCEPT ![k] =
                      [state |-> "done", command |-> @.command, ok |-> r.ok,
                       result |-> r.result]]
    /\ sendCommandResponse(k, r.result, answersError(r), ~r.serialisable)
    /\ UNCHANGED <<att, nextSend, listening>>
    /\ UNCHANGED <<sockVars, cmdVars, cursorVars, regVars, luaVars, vsVars, exceptConn>>

(* --------------------------- SpecDisconnect ---------------------------- *)
NextDisconnect ==
    \/ NextConnect
    \/ \E a \in AttemptIds, code \in CloseCodes : SocketCloses(a, code)
    \/ disconnect
    \/ close

SpecDisconnect == InitCmd /\ [][NextDisconnect]_vars

(* ------------------------------ SpecAnswer ----------------------------- *)
NextAnswer ==
    \/ \E maxRetries \in 0..1 : connect(maxRetries)
    \/ ScheduledAttempt
    \/ \E a \in AttemptIds : AttemptFails(a)
    \/ \E a \in AttemptIds : AttemptOpens(a)
    \/ \E a \in AttemptIds : AttemptTimeout(a)
    \/ \E a \in AttemptIds, code \in CloseCodes : SocketCloses(a, code)
    \/ \E a \in AttemptIds, k \in RequestIds, command \in Commands :
          handleExecuteCommand(a, k, command)
    \/ \E k \in RequestIds, r \in CommandOutcomes : ExecuteCommandReturns(k, r)

SpecAnswer == InitCmd /\ [][NextAnswer]_vars

(* ------------------------------ SpecQueue ------------------------------ *)
NextQueue ==
    \/ \E maxRetries \in 0..2 : connect(maxRetries)
    \/ ScheduledAttempt
    \/ \E a \in AttemptIds : AttemptFails(a)
    \/ \E a \in AttemptIds : AttemptOpens(a)
    \/ \E a \in AttemptIds : AttemptTimeout(a)
    \/ \E a \in AttemptIds, code \in CloseCodes : SocketCloses(a, code)
    \/ disconnect
    \/ close
    \/ \E case \in {"cursorPos", "selectionPos"} : SendPosition(case)

SpecQueue == InitCmd /\ [][NextQueue]_vars

(* ------------------------- waiting for Denops -------------------------- *)
MaxAttempts == 3

\* M.is_denops_loaded(): the cache, else the answer of denops#plugin#is_loaded
is_denops_loaded == is_loaded_cache \/ denopsLoaded

\* Denops finishes loading the plugin
DenopsLoads ==
    /\ ~denopsLoaded
    /\ denopsLoaded' = TRUE
    /\ UNCHANGED <<is_loaded_cache, notifier, blocker, sockVars, cmdVars, cursorVars,
                   regVars, luaVars, vsVars, exceptWait>>

\* a loop that goes on after the last attempt
retryOnceMore(attempt, max_attempts) == attempt <= max_attempts

\* current_attempt < max_attempts: there is an attempt left
retry(attempt, max_attempts) == attempt < max_attempts

\* wait_and_notify: count the attempt, check; notify the method when Denops
\* is loaded, else defer the next attempt or report the timeout
wait_and_notify(w) ==
    LET attempt == w.attempt + 1
    IN  IF is_denops_loaded
        THEN [w EXCEPT !.attempt = attempt, !.checks = @ + 1, !.calls = @ + 1,
                       !.pc = "notified"]
        ELSE IF retry(attempt, w.max_attempts)
        THEN [w EXCEPT !.attempt = attempt, !.checks = @ + 1, !.pc = "deferred"]
        ELSE [w EXCEPT !.attempt = attempt, !.checks = @ + 1, !.pc = "timedOut"]

\* M.wait_for_denops_and_notify(method, max_attempts, attempt_interval):
\* the first wait_and_notify runs at once
wait_for_denops_and_notify(max_attempts) ==
    /\ notifier.pc = "idle"
    /\ notifier' = wait_and_notify([notifier EXCEPT !.max_attempts = max_attempts])
    /\ is_loaded_cache' = is_denops_loaded
    /\ UNCHANGED <<denopsLoaded, blocker, sockVars, cmdVars, cursorVars,
                   regVars, luaVars, vsVars, exceptWait>>

\* the wait_and_notify that vim.defer_fn scheduled runs
DeferredAttempt ==
    /\ notifier.pc = "deferred"
    /\ notifier' = wait_and_notify(notifier)
    /\ is_loaded_cache' = is_denops_loaded
    /\ UNCHANGED <<denopsLoaded, blocker, sockVars, cmdVars, cursorVars,
                   regVars, luaVars, vsVars, exceptWait>>

\* M.start_server_and_get_port_blocking(max_attempts, attempt_interval)
\* enters its while loop
start_server_and_get_port_blocking(max_attempts) ==
    /\ blocker.pc = "idle"
    /\ blocker' = [blocker EXCEPT !.max_attempts = max_attempts, !.pc = "looping"]
    /\ UNCHANGED <<denopsLoaded, is_loaded_cache, notifier, sockVars, cmdVars,
                   cursorVars, regVars, luaVars, vsVars, exceptWait>>

\* one iteration of the while loop: count the attempt, check, and vim.wait
\* when Denops is not loaded and an attempt is left; after the loop the
\* timeout is reported and nil returned when Denops is not loaded
BlockingAttempt ==
    /\ blocker.pc = "looping"
    /\ is_loaded_cache' = is_denops_loaded
    /\ LET attempt == blocker.attempt + 1
       IN  blocker' =
             [blocker EXCEPT !.attempt = attempt, !.checks = @ + 1,
                             !.pc = IF is_denops_loaded THEN "loaded"
                                    ELSE IF retry(attempt, blocker.max_attempts)
                                    THEN "looping" ELSE "timedOut"]
    /\ UNCHANGED <<denopsLoaded, notifier, sockVars, cmdVars, cursorVars,
                   regVars, luaVars, vsVars, exceptWait>>

\* the results denops_request("start") can give: what start returns, or
\* nil when denops#request fails
StartResults == {Started(port) : port \in Ports} \cup {Failed("bind"), NoResult}

\* after the loop: M.denops_request("start"), then the port is returned
\* when the result has success and port, else nil
BlockingStart(result) ==
    /\ blocker.pc = "loaded"
    /\ blocker' = [blocker EXCEPT !.calls = @ + 1,
                                  !.port = IF result.success THEN result.port ELSE 0,
                                  !.pc = IF result.success THEN "started" ELSE "failed"]
    /\ UNCHANGED <<denopsLoaded, is_loaded_cache, notifier, sockVars, cmdVars,
                   cursorVars, regVars, luaVars, vsVars, exceptWait>>

(* ------------------------------ SpecWait ------------------------------- *)
NextWait ==
    \/ DenopsLoads
    \/ \E max_attempts \in 1..MaxAttempts : wait_for_denops_and_notify(max_attempts)
    \/ DeferredAttempt
    \/ \E max_attempts \in 1..MaxAttempts :
          start_server_and_get_port_blocking(max_attempts)
    \/ BlockingAttempt
    \/ \E result \in StartResults : BlockingStart(result)

SpecWait == InitCmd /\ [][NextWait]_vars

\* deferred functions run, and a blocking function goes on running
FairSpecWait ==
    SpecWait /\ WF_vars(DeferredAttempt) /\ WF_vars(BlockingAttempt)
             /\ WF_vars(\E result \in StartResults : BlockingStart(result))

(* --------------------------- inbound messages -------------------------- *)
MaxMessages == 2

Data(kind, sender, case, pos, requestId, callbackId, result, isError) ==
    [kind |-> kind, sender |-> sender, case |-> case, pos |-> pos,
     requestId |-> requestId, callbackId |-> callbackId, result |-> result,
     isError |-> isError]

\* what a socket can deliver: text that is not JSON; for each sender tag a
\* message without payload, one of each payload case, and executeCommand
\* with a requestId, with a callbackId (string or number), with neither
InboundSenders == {"vscode", "vim", ""}
InboundData ==
    {Data("notJson", "", "", NoPos, 0, Undefined, "", FALSE)}
    \cup {Data("json", sender, case, NoPos, 0, Undefined, "", FALSE) :
            sender \in InboundSenders,
            case \in {"noPayload", "selectionPos", "executeCommand", "closeBuffer",
                      "textContent"}}
    \cup {Data("json", sender, "cursorPos", pos, 0, Undefined, "", FALSE) :
            sender \in InboundSenders, pos \in {Pos("/a", 2, 1), Pos("/b", 1, 1)}}
    \cup {Data("json", sender, "executeCommand", NoPos, 1, Undefined, "r1", FALSE) :
            sender \in InboundSenders}
    \cup {Data("json", sender, "executeCommand", NoPos, 0, callbackId, "r1", FALSE) :
            sender \in InboundSenders, callbackId \in {String(1), Number(1)}}

\* what socket.onmessage does with a frame: "caught" when JSON.parse, the
\* read of msg.payload.case or handleCommandResult throws into the catch
\* block, "ignored" when the sender test fails, "handled" for the three
\* branches that act, "logged" for those that only write to the console
onmessageOutcome(data, fromPeer) ==
    IF data.kind = "notJson" THEN "caught"
    ELSE IF ~fromPeer THEN "ignored"
    ELSE IF data.case = "noPayload" THEN "caught"
    ELSE IF data.case = "cursorPos" THEN "handled"
    ELSE IF data.case = "executeCommand" /\ data.requestId # 0 THEN "handled"
    ELSE IF data.case = "executeCommand" /\ data.callbackId # Undefined
    THEN IF ensureNumber(data.callbackId) THEN "handled" ELSE "caught"
    ELSE "logged"

\* the body of socket.onmessage; fromPeer is the result of the sender test
dispatch(s, data, fromPeer) ==
    /\ received.n < MaxMessages
    /\ readyState[s] = "OPEN"
    /\ received' = [n |-> received.n + 1, data |-> data,
                    outcome |-> onmessageOutcome(data, fromPeer)]
    /\ IF data.kind = "notJson" \/ ~fromPeer \/ data.case = "noPayload"
       THEN UNCHANGED <<rpcQueue, nextEvent, reqVars, scheduled>>
       ELSE IF data.case = "cursorPos"
       THEN /\ nextEvent <= MaxEvents
            /\ nextEvent' = nextEvent + 1
            /\ rpcQueue' = Append(rpcQueue, Task("inbound", "line", data.pos))
            /\ UNCHANGED <<reqVars, scheduled>>
       ELSE IF data.case = "executeCommand" /\ data.requestId # 0
       THEN /\ handleCommandResponse(data.requestId, data.result, data.isError)
            /\ UNCHANGED <<rpcQueue, nextEvent, nextCall, scheduled>>
       ELSE IF data.case = "executeCommand" /\ data.callbackId # Undefined
       THEN /\ handleCommandResult(data.callbackId, data.result, data.isError)
            /\ UNCHANGED <<rpcQueue, nextEvent, reqVars>>
       ELSE UNCHANGED <<rpcQueue, nextEvent, reqVars, scheduled>>
    /\ UNCHANGED <<editorVars, lastCursorPos, debounceVars, lastAccepted, lastSync,
                   lastInbound, sockVars, srvVars, regVars, requestState, invoked,
                   notified, cbResponses, vsVars, exceptRcv, vsLastMessage>>

\* a socket.onmessage that dispatches whatever the sender is
onmessageAnySender(s, data) == dispatch(s, data, TRUE)

\* socket.onmessage: only a message whose sender is "vscode" is dispatched
onmessage(s, data) == dispatch(s, data, data.sender = "vscode")

(* ---------------------------- SpecReceiver ----------------------------- *)
\* one open connection; the peer sends frames, the user makes synchronous calls
NextReceiver ==
    \/ \E data \in InboundData : onmessage(1, data)
    \/ CallSync
    \/ \E requestId \in CallIds : TimeoutFire(requestId)
    \/ HandlerRead
    \/ HandlerDecide
    \/ HandlerBuftype
    \/ HandlerOpen
    \/ HandlerCursor

SpecReceiver == InitCursor /\ [][NextReceiver]_vars

(* ------------------------------ messages ------------------------------- *)
MaxInt == 1
MaxArgs == 2

\* the values of the int32 fields, of the string fields, of args
Int32Values == (0 - MaxInt)..MaxInt
StringValues == {"", "/a"}
Senders == {"", "vim", "vscode"}
RECURSIVE ArgsOfLen(_)
ArgsOfLen(n) ==
    IF n = 0 THEN {<<>>}
    ELSE {Append(a, x) : a \in ArgsOfLen(n - 1), x \in {"", "x"}}
ArgsValues == UNION {ArgsOfLen(n) : n \in {0, MaxArgs}}

\* vicode.proto: the fields of each payload message, by field number
Field(no, name, type) == [no |-> no, name |-> name, type |-> type]
PayloadFields(case) ==
    CASE case = "textContent" ->
           <<Field(1, "path", "string"), Field(2, "text", "string"),
             Field(3, "cursorLine", "int32"), Field(4, "cursorCol", "int32")>>
      [] case = "cursorPos" ->
           <<Field(1, "path", "string"), Field(2, "line", "int32"),
             Field(3, "col", "int32")>>
      [] case = "selectionPos" ->
           <<Field(1, "path", "string"), Field(2, "startLine", "int32"),
             Field(3, "startCol", "int32"), Field(4, "endLine", "int32"),
             Field(5, "endCol", "int32")>>
      [] case = "executeCommand" ->
           <<Field(1, "command", "string"), Field(2, "args", "repeated string"),
             Field(3, "requestId", "string"), Field(4, "callbackId", "string"),
             Field(5, "isError", "bool"), Field(6, "result", "string")>>
      [] case = "closeBuffer" ->
           <<Field(1, "path", "string")>>

\* vicode.proto: the members of the oneof payload, by field number
PayloadCases ==
    [no \in 2..6 |->
        CASE no = 2 -> "textContent" [] no = 3 -> "cursorPos"
          [] no = 4 -> "selectionPos" [] no = 5 -> "executeCommand"
          [] no = 6 -> "closeBuffer"]
PayloadFieldNo(case) == CHOOSE no \in DOMAIN PayloadCases : PayloadCases[no] = case

\* the factory functions
createCursorPosMessage(sender, path, line, col) ==
    [sender |-> sender,
     payload |-> [case |-> "cursorPos",
                  value |-> [path |-> path, line |-> line, col |-> col]]]

createSelectionPosMessage(sender, path, startLine, startCol, endLine, endCol) ==
    [sender |-> sender,
     payload |-> [case |-> "selectionPos",
                  value |-> [path |-> path, startLine |-> startLine,
                             startCol |-> startCol, endLine |-> endLine,
                             endCol |-> endCol]]]

createExecuteCommandMessage(sender, command, args, requestId, callbackId, isError, result) ==
    [sender |-> sender,
     payload |-> [case |-> "executeCommand",
                  value |-> [command |-> command, args |-> args,
                             requestId |-> requestId, callbackId |-> callbackId,
                             isError |-> isError, result |-> result]]]

createCloseBufferMessage(sender, path) ==
    [sender |-> sender,
     payload |-> [case |-> "closeBuffer", value |-> [path |-> path]]]

createTextContentMessage(sender, path, text, line, col) ==
    [sender |-> sender,
     payload |-> [case |-> "textContent",
                  value |-> [path |-> path, text |-> text,
                             cursorLine |-> line, cursorCol |-> col]]]

\* an int32 on the wire: a varint of the value sign-extended to 64 bits,
\* here its low 31 bits and whether the bits above them are all set
Varint(v) ==
    IF v < 0 THEN [hi |-> 1, lo |-> (v + 2147483647) + 1]
    ELSE [hi |-> 0, lo |-> v]
Int32(u) == IF u.hi = 1 THEN (u.lo - 2147483647) - 1 ELSE u.lo

WireField(no, wt, val) == [no |-> no, wt |-> wt, val |-> val]

\* a writer that leaves out the empty elements of a repeated field
writeFieldSkipsEmptyElements(field, v) ==
    CASE field.type = "string" ->
           IF v = "" THEN <<>> ELSE <<WireField(field.no, "len", [string |-> v])>>
      [] field.type = "int32" ->
           IF v = 0 THEN <<>> ELSE <<WireField(field.no, "varint", Varint(v))>>
      [] field.type = "bool" ->
           IF ~v THEN <<>> ELSE <<WireField(field.no, "varint", Varint(1))>>
      [] field.type = "repeated string" ->
           SelectSeq([i \in 1..Len(v) |-> WireField(field.no, "len", [string |-> v[i]])],
                     LAMBDA w : w.val.string # "")

\* toBinary of one field: a scalar of proto3 is written unless it is the
\* default of its type, every element of a repeated field is written
writeField(field, v) ==
    CASE field.type = "string" ->
           IF v = "" THEN <<>> ELSE <<WireField(field.no, "len", [string |-> v])>>
      [] field.type = "int32" ->
           IF v = 0 THEN <<>> ELSE <<WireField(field.no, "varint", Varint(v))>>
      [] field.type = "bool" ->
           IF ~v THEN <<>> ELSE <<WireField(field.no, "varint", Varint(1))>>
      [] field.type = "repeated string" ->
           [i \in 1..Len(v) |-> WireField(field.no, "len", [string |-> v[i]])]

\* toBinary of a payload message: its fields in field-number order
RECURSIVE writeFields(_, _)
writeFields(value, fields) ==
    IF fields = <<>> THEN <<>>
    ELSE writeField(Head(fields), value[Head(fields).name])
         \o writeFields(value, Tail(fields))

\* serializeMessage: toBinary(VicodeMessageSchema, message); the member of
\* the oneof that is set is written as a nested message
serializeMessage(m) ==
    writeField(Field(1, "sender", "string"), m.sender)
    \o (IF m.payload.case = "undefined" THEN <<>>
        ELSE <<WireField(PayloadFieldNo(m.payload.case), "len",
                         [fields |-> writeFields(m.payload.value,
                                                 PayloadFields(m.payload.case))])>>)

\* create(): every field of a message holds the default of its type
DefaultOf(type) ==
    CASE type = "string" -> [v |-> ""]
      [] type = "int32" -> [v |-> 0]
      [] type = "bool" -> [v |-> FALSE]
      [] type = "repeated string" -> [v |-> <<>>]
FieldNamed(fields, name) == CHOOSE i \in 1..Len(fields) : fields[i].name = name
Defaults(fields) ==
    [name \in {fields[i].name : i \in 1..Len(fields)} |->
        DefaultOf(fields[FieldNamed(fields, name)].type).v]

\* fromBinary of one field read into a message
readField(value, fields, w) ==
    IF \A i \in 1..Len(fields) : fields[i].no # w.no
    THEN value
    ELSE LET field == fields[CHOOSE i \in 1..Len(fields) : fields[i].no = w.no]
         IN  [value EXCEPT ![field.name] =
                CASE field.type = "string" -> w.val.string
                  [] field.type = "int32" -> Int32(w.val)
                  [] field.type = "bool" -> w.val.lo # 0
                  [] field.type = "repeated string" -> Append(@, w.val.string)]

\* fromBinary of a payload message: the defaults, then the fields read
RECURSIVE readFields(_, _, _)
readFields(value, fields, wire_) ==
    IF wire_ = <<>> THEN value
    ELSE readFields(readField(value, fields, Head(wire_)), fields, Tail(wire_))

\* fromBinary of one field of VicodeMessage
readMessageField(m, w) ==
    IF w.no = 1 THEN [m EXCEPT !.sender = w.val.string]
    ELSE IF w.no \in DOMAIN PayloadCases
    THEN [m EXCEPT !.payload =
            [case |-> PayloadCases[w.no],
             value |-> readFields(Defaults(PayloadFields(PayloadCases[w.no])),
                                  PayloadFields(PayloadCases[w.no]),
                                  w.val.fields)]]
    ELSE m

\* deserializeMessage: fromBinary(VicodeMessageSchema, binary)
RECURSIVE readMessage(_, _)
readMessage(m, bin) ==
    IF bin = <<>> THEN m
    ELSE readMessage(readMessageField(m, Head(bin)), Tail(bin))
deserializeMessage(bin) == readMessage(NoMessage, bin)

\* the type guards
isCursorPosMessage(m) == m.payload.case = "cursorPos"
isSelectionPosMessage(m) == m.payload.case = "selectionPos"
isExecuteCommandMessage(m) == m.payload.case = "executeCommand"
\* a guard that looks for the field of the payload instead of the case
isCloseBufferMessageByField(m) == "path" \in DOMAIN m.payload.value
isCloseBufferMessage(m) == m.payload.case = "closeBuffer"
isTextContentMessage(m) == m.payload.case = "textContent"

\* a factory function is called
Build(name, m) ==
    /\ codecPc = "start"
    /\ codecPc' = "built"
    /\ built' = name
    /\ originalMessage' = m
    /\ UNCHANGED <<binary, deserializedMessage, sockVars, cmdVars, cursorVars, regVars,
                   luaVars, vsVars, exceptCodec>>

BuildCursorPos ==
    \E sender \in Senders, path \in StringValues, line, col \in Int32Values :
        Build("cursorPos", createCursorPosMessage(sender, path, line, col))

BuildSelectionPos ==
    \E sender \in Senders, path \in StringValues,
       startLine, startCol, endLine, endCol \in Int32Values :
        Build("selectionPos",
              createSelectionPosMessage(sender, path, startLine, startCol,
                                        endLine, endCol))

BuildExecuteCommand ==
    \E sender \in Senders, command, requestId, callbackId, result \in StringValues,
       args \in ArgsValues, isError \in BOOLEAN :
        Build("executeCommand",
              createExecuteCommandMessage(sender, command, args, requestId,
                                          callbackId, isError, result))

BuildCloseBuffer ==
    \E sender \in Senders, path \in StringValues :
        Build("closeBuffer", createCloseBufferMessage(sender, path))

BuildTextContent ==
    \E sender \in Senders, path, text \in StringValues,
       line, col \in Int32Values :
        Build("textContent",
              createTextContentMessage(sender, path, text, line, col))

Serialize ==
    /\ codecPc = "built"
    /\ codecPc' = "serialized"
    /\ binary' = serializeMessage(originalMessage)
    /\ UNCHANGED <<originalMessage, built, deserializedMessage, sockVars, cmdVars, cursorVars, regVars,
                   luaVars, vsVars, exceptCodec>>

Deserialize ==
    /\ codecPc = "serialized"
    /\ codecPc' = "decoded"
    /\ deserializedMessage' = deserializeMessage(binary)
    /\ UNCHANGED <<originalMessage, built, binary, sockVars, cmdVars, cursorVars, regVars,
                   luaVars, vsVars, exceptCodec>>

(* ------------------------------ SpecCodec ------------------------------ *)
NextCodec ==
    \/ BuildCursorPos
    \/ BuildSelectionPos
    \/ BuildExecuteCommand
    \/ BuildCloseBuffer
    \/ BuildTextContent
    \/ Serialize
    \/ Deserialize

SpecCodec == InitCmd /\ [][NextCodec]_vars

(* ------------------------ properties: tracker -------------------------- *)
Issued(k) == k < nextCall

\* a settle event that comes from a response of the peer
IsResponseSettle(e) ==
    \E r \in Responses :
        /\ e.result = r.result
        /\ e.arm = (IF r.isError THEN "reject" ELSE "resolve")
        /\ e.err = ""

\* C1: the promise of every synchronous request is settled at most once, and
\* it is settled exactly when its entry has left the pending table, whatever
\* the order of responses (also duplicate and late ones) and timer firing.
C1_SettledExactlyOnce ==
    \A k \in CallIds :
        /\ Len(settled[k]) <= 1
        /\ (k \in DOMAIN pendingRequests => Issued(k) /\ settled[k] = <<>>)
        /\ (Issued(k) /\ k \notin DOMAIN pendingRequests => Len(settled[k]) = 1)
        /\ (~Issued(k) => settled[k] = <<>>)

\* a request settled by its first response, for which a later (duplicate)
\* response was handled as well, next to a request settled by its timeout
C1_Witness ==
    \E k, j \in CallIds :
        /\ Len(settled[k]) = 1 /\ IsResponseSettle(settled[k][1])
        /\ k \in unknownResponses
        /\ Len(settled[j]) = 1 /\ settled[j][1].err = "timed out"

\* C3 (as claimed): a call made while no tracked connection is in the OPEN
\* state is rejected at once with the no-destination error.
C3_FailFastWhenNoneReachable ==
    [][(nextCall' = nextCall + 1 /\ ~hasActiveConnections)
          => settled'[nextCall] = <<NoDestError>>]_vars

\* C4: a call made with an empty registry is rejected at once with the
\* no-destination error; it registers no entry, arms no timer, sends nothing.
C4_EmptyRegistryFailsFast ==
    [][(nextCall' = nextCall + 1 /\ sockets = {})
          => /\ settled'[nextCall] = <<NoDestError>>
             /\ pendingRequests' = pendingRequests
             /\ timerState' = timerState
             /\ wire' = wire
             /\ sockets' = sockets]_vars

C4_Witness ==
    \E k \in CallIds :
        /\ settled[k] = <<NoDestError>>
        /\ timerState[k] = "none"
        /\ k \notin DOMAIN pendingRequests

\* C5: when the timer of a pending request fires, the request is rejected
\* with the timeout error that names its command and its timeout, and its
\* entry is removed.
C5_TimeoutRejects ==
    [][\A k \in CallIds :
          (timerState[k] = "armed" /\ timerState'[k] = "fired"
             /\ k \in DOMAIN pendingRequests)
          => /\ k \notin DOMAIN pendingRequests'
             /\ settled[k] = <<>>
             /\ settled'[k] = <<[arm |-> "reject", err |-> "timed out",
                                 command |-> pendingRequests[k].command,
                                 timeout |-> pendingRequests[k].timeout,
                                 result |-> ""]>>]_vars

C5_Witness ==
    \E k \in CallIds :
        /\ timerState[k] = "fired"
        /\ k \notin DOMAIN pendingRequests
        /\ settled[k] = <<TimeoutError("cmdA", 200)>>

\* C6: when a response for a pending request is handled before its timer
\* fires, the request settles with that response (reject iff isError), its
\* entry is removed, its timer is cancelled and stays cancelled (no timeout
\* rejection later), and every other entry, timer and promise is unchanged.
C6_ResponseSettlesAndCancels ==
    [][\A k \in CallIds :
          /\ (k \in DOMAIN pendingRequests /\ k \notin DOMAIN pendingRequests'
                /\ timerState'[k] # "fired")
             => /\ timerState[k] = "armed" /\ timerState'[k] = "cleared"
                /\ Len(settled'[k]) = 1 /\ IsResponseSettle(settled'[k][1])
                /\ \A j \in CallIds \ {k} :
                      /\ timerState'[j] = timerState[j]
                      /\ settled'[j] = settled[j]
                      /\ (j \in DOMAIN pendingRequests')
                            = (j \in DOMAIN pendingRequests)
                      /\ (j \in DOMAIN pendingRequests
                            => pendingRequests'[j] = pendingRequests[j])
          /\ (timerState[k] = "cleared"
                => timerState'[k] = "cleared" /\ settled'[k] = settled[k])]_vars

\* a request settled by an error response while another request is pending
\* with its timer armed
C6_Witness ==
    \E k, j \in CallIds :
        /\ timerState[k] = "cleared"
        /\ settled[k] = <<[arm |-> "reject", err |-> "", command |-> "",
                           timeout |-> 0, result |-> "r2"]>>
        /\ j \in DOMAIN pendingRequests
        /\ timerState[j] = "armed"

\* C7: handling a response whose id is not in the pending table (logged as
\* unknown) changes no table entry, no timer, no promise and no connection.
C7_UnknownResponseIsNoOp ==
    [][unknownResponses' # unknownResponses
          => UNCHANGED <<pendingRequests, timerState, settled, nextCall,
                         sockets, readyState, wire, srvVars>>]_vars

\* unknown-response handling for an id that timed out, while another request
\* is still pending
C7_Witness ==
    \E k, j \in CallIds :
        /\ k \in unknownResponses
        /\ timerState[k] = "fired"
        /\ j \in DOMAIN pendingRequests

\* C8: every registered request is eventually settled and removed, given
\* that armed timers fire - whatever happens to connections and server.
C8_PendingEventuallySettles ==
    \A k \in CallIds :
        (k \in DOMAIN pendingRequests)
            ~> (k \notin DOMAIN pendingRequests /\ Len(settled[k]) = 1)

\* a request that timed out after the server was stopped and every
\* connection was gone
C8_Witness ==
    \E k \in CallIds :
        /\ timerState[k] = "fired"
        /\ Len(settled[k]) = 1
        /\ currentServer = NoServer
        /\ servers = {}
        /\ sockets = {}

(* ------------------------ properties: cursor --------------------------- *)
IsCursorPos(m) == m.case = "cursorPos"
IsFlush(task) == task.kind = "flush"
IsInbound(task) == task.kind = "inbound"

\* the CursorPos messages sent to the peer on connection 1, in order
Emitted == SelectSeq(wire[1], IsCursorPos)

\* this step is the end of a syncCursorPos run
SyncFinishes ==
    /\ rpcQueue # <<>>
    /\ HeadTask.kind = "sync"
    /\ HeadTask.pc = "path"
    /\ rpcQueue' = Tail(rpcQueue)

\* the position the syncCursorPos run at the head of the queue observed
Observed == Pos(curPath, HeadTask.cl, HeadTask.cc)

\* C2 (as claimed): once handleCursorPosMessage has accepted an inbound
\* position P and moved the caret to P, a syncCursorPos that observes the
\* cursor at P is suppressed: it stores nothing and schedules no CursorPos.
C2_AppliedInboundNotEchoed ==
    [][(/\ SyncFinishes
        /\ lastAccepted = [pos |-> Observed, origin |-> "inbound"]
        /\ Pos(curPath, curLine, curCol) = Observed
        /\ SelectSeq(rpcQueue, IsInbound) = <<>>)
          => UNCHANGED <<lastCursorPos, debounceTimer, debounceArgs>>]_vars

\* C9: a syncCursorPos that observes the position the previous syncCursorPos
\* observed, with no position update accepted since, is suppressed: it leaves
\* lastCursorPos alone, does not call the debounced sender, sends nothing.
C9_SecondIdenticalSyncSuppressed ==
    [][(/\ SyncFinishes
        /\ lastSync.outcome # "none"
        /\ lastSync.pos = Observed
        /\ lastAccepted.origin = "outbound")
          => /\ UNCHANGED <<lastCursorPos, debounceTimer, debounceArgs, burstLog, wire>>
             /\ lastSync'.outcome = "suppressed"]_vars

\* two calls at one position: the first was sent, the second suppressed,
\* and one CursorPos has gone out
C9_Witness ==
    /\ lastSync.outcome = "suppressed"
    /\ lastAccepted = [pos |-> lastSync.pos, origin |-> "outbound"]
    /\ Len(burstLog) = 1
    /\ burstLog[1].calls = 1
    /\ Len(Emitted) = 1
    /\ rpcQueue = <<>>

\* C10: every burst of accepted calls less than DebounceMs apart leads to
\* exactly one CursorPos broadcast, made after the burst has ended, with the
\* line and column of the last call of the burst.
C10_OneTrailingEmissionPerBurst ==
    LET done == Len(Emitted)
        flushes == SelectSeq(rpcQueue, IsFlush)
        armed == IF debounceTimer > 0 THEN 1 ELSE 0
    IN  /\ done + Len(flushes) + armed = Len(burstLog)
        /\ \A i \in 1..done :
              /\ Emitted[i].line = burstLog[i].line
              /\ Emitted[i].col = burstLog[i].col
        /\ \A j \in 1..Len(flushes) :
              /\ flushes[j].np.line = burstLog[done + j].line
              /\ flushes[j].np.col = burstLog[done + j].col
        /\ (armed = 1) = (elapsed < DebounceMs)
        /\ (armed = 1 => debounceArgs = [line |-> burstLog[Len(burstLog)].line,
                                         col |-> burstLog[Len(burstLog)].col])

\* a burst of two calls at different positions whose single CursorPos has
\* been sent, followed by a later burst
C10_Witness ==
    /\ Len(burstLog) >= 2
    /\ burstLog[1].calls = 2
    /\ Len(Emitted) = 2
    /\ Emitted[1].line = 2

(* --------------------- properties: inbound cursor ---------------------- *)
\* the run of the handler at the head of the queue after this step
NextTask == rpcQueue'[Len(rpcQueue')]

\* this step is a step of the handleCursorPosMessage run at the head of the queue
InboundStep ==
    /\ rpcQueue # <<>>
    /\ HeadTask.kind = "inbound"
    /\ \/ rpcQueue' = Tail(rpcQueue)
       \/ /\ Len(rpcQueue') = Len(rpcQueue)
          /\ SubSeq(rpcQueue', 1, Len(rpcQueue) - 1) = Tail(rpcQueue)
          /\ NextTask.pc # HeadTask.pc

\* the step that clamps and compares with lastCursorPos
DecideStep == InboundStep /\ HeadTask.pc = "len"

\* the step in which setLastCursorPos runs
StoreStep == InboundStep /\ HeadTask.pc \in {"buftype", "tabnew", "edit"}
                         /\ NextTask.pc = "cursor"

\* the step in which Neovim runs the cursor() command
CursorStep == InboundStep /\ HeadTask.pc = "cursor"

\* what the handler at the head of the queue received and what it read
Incoming == HeadTask.np
Local == Pos(HeadTask.cp, HeadTask.cl, HeadTask.cc)

\* the incoming position is on the current path and beyond the buffer
BeyondBuffer ==
    /\ HeadTask.cp = Incoming.path
    /\ \/ HeadTask.ll < Incoming.line
       \/ (IF Incoming.line \in 1..Len(LineLengths(curPath))
           THEN LineLengths(curPath)[Incoming.line] ELSE 0) < Incoming.col

\* pos is a position of the text of its buffer
InRange(pos) ==
    /\ pos.path \in Paths
    /\ pos.line \in 1..Len(LineLengths(pos.path))
    /\ pos.col \in 1..LineLengths(pos.path)[pos.line]

\* C11: handleCursorPosMessage goes on with the local position it read when
\* the incoming one is on the current path and beyond the buffer, and with
\* the incoming position otherwise: that position is compared with
\* lastCursorPos, stored in lastCursorPos and given to cursor().
C11_ClampSubstitutesLocal ==
    [][/\ DecideStep =>
            LET used == IF BeyondBuffer THEN Local ELSE Incoming
            IN  /\ (rpcQueue' = Tail(rpcQueue)) = (lastCursorPos["websocket"] = used)
                /\ rpcQueue' # Tail(rpcQueue) => NextTask.np = used
       /\ StoreStep => /\ NextTask.np = HeadTask.np
                       /\ lastCursorPos'["websocket"] = HeadTask.np
       /\ CursorStep => /\ curLine' = cursorLine(curPath, HeadTask.np.line)
                        /\ curCol' = cursorCol(curPath, HeadTask.np.line, HeadTask.np.col)
      ]_vars

\* /a:3:1 is beyond the two lines of /a: the handler stored the local /a:1:1
C11_Witness ==
    /\ lastInbound = [in |-> Pos("/a", 3, 1), eff |-> Pos("/a", 1, 1),
                      outcome |-> "moved"]
    /\ lastCursorPos["websocket"] = Pos("/a", 1, 1)
    /\ Pos(curPath, curLine, curCol) = Pos("/a", 1, 1)
    /\ rpcQueue = <<>>

\* C13: when the position the handler goes on with equals lastCursorPos the
\* handler returns: no edit, tabnew or cursor command, lastCursorPos unchanged.
C13_DuplicateInboundSuppressed ==
    [][(DecideStep
        /\ lastCursorPos["websocket"] = (IF BeyondBuffer THEN Local ELSE Incoming))
          => /\ rpcQueue' = Tail(rpcQueue)
             /\ UNCHANGED <<curPath, curLine, curCol, lastCursorPos>>]_vars

\* the same position came in twice; the second run ended at the comparison
C13_Witness ==
    /\ lastInbound.outcome = "suppressed"
    /\ lastInbound.in = lastInbound.eff
    /\ lastCursorPos["websocket"] = lastInbound.eff
    /\ lastAccepted = [pos |-> lastInbound.eff, origin |-> "inbound"]
    /\ rpcQueue = <<>>

\* C14: an incoming position that is in range and differs from lastCursorPos
\* is stored unchanged in lastCursorPos and given to cursor(), which puts the
\* caret on (line, col); a terminal buffer makes the handler run tabnew and a
\* different current path makes it run edit before that.
C14_InboundApplied ==
    [][/\ (DecideStep /\ ~BeyondBuffer /\ lastCursorPos["websocket"] # Incoming)
            => /\ rpcQueue' # Tail(rpcQueue)
               /\ NextTask.np = Incoming
               /\ NextTask.pc = "buftype"
               /\ UNCHANGED <<curPath, curLine, curCol, lastCursorPos>>
       /\ (InboundStep /\ HeadTask.pc = "buftype")
            => IF curPath = Term
               THEN NextTask.pc = "tabnew" /\ UNCHANGED <<editorVars, lastCursorPos>>
               ELSE IF HeadTask.cp # HeadTask.np.path
               THEN NextTask.pc = "edit" /\ UNCHANGED <<editorVars, lastCursorPos>>
               ELSE /\ NextTask.pc = "cursor"
                    /\ lastCursorPos'["websocket"] = HeadTask.np
                    /\ UNCHANGED editorVars
       /\ (InboundStep /\ HeadTask.pc \in {"tabnew", "edit"})
            => /\ curPath' = HeadTask.np.path
               /\ NextTask.pc = "cursor"
               /\ lastCursorPos'["websocket"] = HeadTask.np
       /\ (CursorStep /\ curPath = HeadTask.np.path /\ InRange(HeadTask.np))
            => /\ Pos(curPath', curLine', curCol') = HeadTask.np
               /\ UNCHANGED lastCursorPos
      ]_vars

\* /b:1:1 came in while /a was shown: /b was opened, the position stored
\* and the caret put there
C14_Witness ==
    /\ lastInbound = [in |-> Pos("/b", 1, 1), eff |-> Pos("/b", 1, 1),
                      outcome |-> "moved"]
    /\ lastAccepted = [pos |-> Pos("/b", 1, 1), origin |-> "inbound"]
    /\ lastCursorPos["websocket"] = Pos("/b", 1, 1)
    /\ Pos(curPath, curLine, curCol) = Pos("/b", 1, 1)
    /\ rpcQueue = <<>>

(* ------------------------ properties: registry ------------------------- *)
\* this step is a broadcast of a command
BroadcastStep == lastBroadcast'.n # lastBroadcast.n

\* C15: broadcast hands the message to every registered OPEN socket whose
\* own send does not throw, whatever the other sends do, and the call that
\* broadcast returns normally.
C15_ThrowDoesNotStopDelivery ==
    [][BroadcastStep =>
         /\ \A s \in OpenSockets \ lastBroadcast'.throwing :
               wire'[s] = Append(wire[s], lastBroadcast'.msg)
         /\ \A s \in SocketIds \ (OpenSockets \ lastBroadcast'.throwing) :
               wire'[s] = wire[s]
         /\ lastBroadcast'.result = "resolved"]_vars

\* send threw on one of three open connections; the other two got the message
C15_Witness ==
    /\ Cardinality(lastBroadcast.throwing) = 1
    /\ Cardinality(lastBroadcast.open \ lastBroadcast.throwing) = 2
    /\ \A s \in lastBroadcast.open \ lastBroadcast.throwing :
          /\ wire[s] # <<>>
          /\ wire[s][Len(wire[s])] = lastBroadcast.msg
    /\ \A s \in lastBroadcast.throwing : lastBroadcast.msg \notin {wire[s][i] : i \in 1..Len(wire[s])}

\* C16 (as claimed): after a broadcast in which send throws on a connection,
\* that connection has left the registry and the connections that received
\* the message are still registered.
C16_ThrowingSocketRemoved ==
    [][BroadcastStep =>
         /\ \A s \in lastBroadcast'.throwing : s \notin sockets'
         /\ \A s \in OpenSockets \ lastBroadcast'.throwing : s \in sockets']_vars

\* C17: after broadcast every registered socket it found not OPEN has left
\* the registry and every socket it found OPEN is still registered.
C17_NonOpenRemovedOpenKept ==
    [][BroadcastStep =>
         /\ \A s \in sockets :
               (readyState[s] = "OPEN") = (s \in sockets')
         /\ sockets' \subseteq sockets]_vars

\* a broadcast found open and non-open sockets registered and left the open ones
C17_Witness ==
    /\ lastBroadcast.n > 0
    /\ lastBroadcast.open # {}
    /\ lastBroadcast.found \ lastBroadcast.open # {}
    /\ sockets = lastBroadcast.open

\* C18 (as claimed): a connection that was accepted and has had no close or
\* error event is in the registry.
C18_RegisteredUntilCloseOrError ==
    \A s \in SocketIds :
        readyState[s] \in {"CONNECTING", "OPEN"} => s \in sockets

(* ------------------------- properties: VSCode -------------------------- *)
\* this step is the end of the handleCursorPos run at the head of vsTasks
VsApplyStep == vsTasks # <<>> /\ vsTasks' = Tail(vsTasks)

\* the run at the head of vsTasks got a position beyond its document
VsBeyondDocument ==
    LET payload == Head(vsTasks).payload
        editor == Head(vsTasks).editor
    IN  /\ lineAtExists(editor, payload.line)
        /\ \/ lineCount(editor) - 1 < payload.line
           \/ lineAtLength(editor, payload.line) < payload.col

\* C12 (as claimed): when the incoming line or column is beyond the local
\* document, handleCursorPos leaves the caret on the local current position
\* and lastCursorPosition records that position (0- or 1-based), not the
\* incoming one.
C12_VscodeClampSubstitutesLocal ==
    [][(VsApplyStep /\ VsBeyondDocument) =>
         LET payload == Head(vsTasks).payload
             local == vsSel[Head(vsTasks).editor]
         IN  /\ vsSel' = vsSel
             /\ lastCursorPosition' \in
                  {Pos(payload.path, local.line, local.character),
                   Pos(payload.path, local.line + 1, local.character + 1)}]_vars

(* ---------------------- properties: async commands --------------------- *)
\* C19 (as claimed): a command broadcast while no registered connection is
\* open does not complete as if it had been sent: the call fails, or its
\* callback is completed with an error.
C19_NoDestinationSurfaced ==
    [][(BroadcastStep /\ OpenSockets = {}) =>
         \/ lastBroadcast'.result # "resolved"
         \/ \E id \in CallbackIds :
              /\ lastBroadcast'.msg = AsyncCommandMsg("cmdA", String(id))
              /\ \/ Len(invoked'[id]) = Len(invoked[id]) + 1
                 \/ Len(scheduled') = Len(scheduled) + 1]_vars

\* this step receives a callback response from the peer
CallbackResponseStep == Len(cbResponses') = Len(cbResponses) + 1

\* C20 (as claimed): when the response carrying the callbackId that was sent
\* for a registered callback arrives, the invocation of that callback with
\* the result and the error flag of the response is scheduled.
C20_MatchingResponseInvokesCallback ==
    [][CallbackResponseStep =>
         LET r == cbResponses'[Len(cbResponses')]
         IN  \A id \in requestState.callbacks :
                r.callbackId = String(id) =>
                   scheduled' = Append(scheduled,
                      [id |-> id, result |-> r.result, is_error |-> r.isError])]_vars

(* ------------------------ properties: selection ------------------------ *)
\* handleMessage dispatches a SelectionPos payload in this step
SelectionStep == Len(selectionReceived') = Len(selectionReceived) + 1

\* C21: every SelectionPos received for the document of the active editor
\* makes one more selectRange call with its positions, whether or not the
\* same payload was applied before; a SelectionPos for another document
\* makes no call; the handling leaves lastCursorPosition as it was
C21_SelectionAppliedWithoutDedupe ==
    [][SelectionStep =>
          LET payload == selectionReceived'[Len(selectionReceived')]
          IN  /\ lastCursorPosition' = lastCursorPosition
              /\ IF payload.path = vsActive
                 THEN selectRangeCalls' =
                          Append(selectRangeCalls, selectRangeArgs(payload))
                 ELSE selectRangeCalls' = selectRangeCalls]_vars

\* the identical SelectionPos was received twice in a row and applied twice,
\* after a SelectionPos for another document that was not applied
C21_Witness ==
    /\ Len(selectionReceived) = 3
    /\ selectionReceived[1].path # vsActive
    /\ selectionReceived[2] = selectionReceived[3]
    /\ Len(selectRangeCalls) = 2
    /\ selectRangeCalls[1] = selectRangeCalls[2]
    /\ lastCursorPosition # NoPos
(* ------------------------ properties: messages ------------------------- *)
\* C22: a message built by any of the factory functions comes back from
\* deserializeMessage(serializeMessage(m)) with the same sender, the same
\* payload case and the same value in every field, also when requestId,
\* callbackId and result are empty and isError is false
C22_RoundTrip ==
    codecPc = "decoded" => deserializedMessage = originalMessage

\* an executeCommand message with empty requestId, callbackId and result,
\* isError false and an empty string among its args went through the round trip
C22_Witness ==
    /\ codecPc = "decoded"
    /\ built = "executeCommand"
    /\ originalMessage.payload.value.requestId = ""
    /\ originalMessage.payload.value.callbackId = ""
    /\ originalMessage.payload.value.result = ""
    /\ ~originalMessage.payload.value.isError
    /\ originalMessage.payload.value.args = <<"x", "">>
    /\ deserializedMessage.payload.case = "executeCommand"
    /\ deserializedMessage.payload.value.args = <<"x", "">>

\* the guards that answer true for a message
GuardsOf(m) ==
    {g \in {"cursorPos", "selectionPos", "executeCommand", "closeBuffer",
            "textContent"} :
        CASE g = "cursorPos" -> isCursorPosMessage(m)
          [] g = "selectionPos" -> isSelectionPosMessage(m)
          [] g = "executeCommand" -> isExecuteCommandMessage(m)
          [] g = "closeBuffer" -> isCloseBufferMessage(m)
          [] g = "textContent" -> isTextContentMessage(m)}

\* C23: for a message built by a factory function exactly one type guard
\* answers true, the guard of the variant that factory builds
C23_ExactlyOneGuard ==
    codecPc # "start" => GuardsOf(originalMessage) = {built}

\* a cursorPos message whose fields all hold defaults was built
C23_Witness ==
    /\ built = "cursorPos"
    /\ originalMessage.payload.value = [path |-> "", line |-> 0, col |-> 0]
    /\ GuardsOf(originalMessage) = {"cursorPos"}
(* ------------------------ properties: receivers ------------------------ *)
\* handleMessage of VSCode gets a message it finds no variant in
VsMalformedStep == vsLastMessage'.n = vsLastMessage.n + 1

\* C24 (as claimed, VSCode side): a malformed or unrecognized message is
\* dropped by handleMessage: no error leaves the handler uncaught, the
\* remembered position, the editor and the queue of outgoing messages stay
\* as they were
C24_MalformedDropped ==
    [][VsMalformedStep =>
          /\ vsLastMessage'.outcome = "dropped"
          /\ UNCHANGED <<vsActive, vsSel, vsAnchor, lastCursorPosition, vsTasks,
                         vsPending, vsSent>>]_vars
\* socket.onmessage of Neovim gets a frame
ReceivedStep == received'.n = received.n + 1

\* C25: a message whose sender is not "vscode" changes neither lastCursorPos
\* nor the table of pending requests, their timers and promises, queues no
\* cursor handler and no callback, and leaves the editor alone, whatever
\* its payload
C25_OtherSenderIgnored ==
    [][(ReceivedStep /\ received'.data.kind = "json"
                     /\ received'.data.sender # "vscode") =>
          /\ received'.outcome = "ignored"
          /\ UNCHANGED <<lastCursorPos, pendingRequests, timerState, settled,
                         unknownResponses, rpcQueue, scheduled, editorVars>>]_vars

\* a response from sender "vim" named a pending request, which is still
\* pending with its timer armed
C25_Witness ==
    /\ received.outcome = "ignored"
    /\ received.data.sender = "vim"
    /\ received.data.case = "executeCommand"
    /\ received.data.requestId \in DOMAIN pendingRequests
    /\ timerState[received.data.requestId] = "armed"
    /\ settled[received.data.requestId] = <<>>
(* ------------------------- properties: server -------------------------- *)
\* C26 (as claimed): once no start and no stop is waiting for a shutdown,
\* at most one server is bound and it is the one currentServer refers to
C26_AtMostOneServerBound ==
    awaiting = {} => servers \subseteq {currentServer}

\* a stopWsServer call returns after its await of shutdown()
StopCompletes ==
    \E op \in awaiting : op.kind = "stop" /\ op \notin awaiting'

\* C27 (as claimed): when stopWsServer has completed, the server it shut
\* down is gone, currentServer is null, no request timer is armed and the
\* table of pending requests is empty
C27_StopLeavesNothingPending ==
    [][StopCompletes =>
          /\ currentServer' = NoServer
          /\ \A op \in awaiting \ awaiting' : op.srv \notin servers'
          /\ \A k \in CallIds : timerState'[k] # "armed"
          /\ DOMAIN pendingRequests' = {}]_vars
\* the value a start call returned is one of the two shapes, the port of a
\* success is the nonzero port of the server that call bound, and a failure
\* names a failed bind or the timeout
StartResultOk(id) ==
    LET result == starts[id].result
    IN  IF result.success
        THEN /\ result.port # 0
             /\ result.port = serverPort[id]
             /\ result.error = ""
        ELSE /\ result.port = 0
             /\ result.error \in {"bind", "timeout"}
             /\ result.error = "bind" => serverPort[id] = 0

\* C28: every start call returns, at the latest when its 10 s timer has
\* fired, and what it returns is {success: true, port} with the nonzero
\* port of the server it bound, or {success: false, error} after a failed
\* bind or the timeout
C28_StartReturns ==
    \A id \in 1..MaxOps :
        /\ [](starts[id].pc = "returned" => StartResultOk(id))
        /\ (starts[id].pc = "racing") ~> (starts[id].pc = "returned")

\* one start returned the port of its server, a later one returned the
\* timeout failure while the shutdown it waits for is still outstanding
C28_Witness ==
    \E a, b \in 1..MaxOps :
        /\ starts[a].pc = "returned" /\ starts[a].result.success
        /\ starts[a].result.port = serverPort[a]
        /\ starts[b].pc = "returned" /\ starts[b].result.error = "timeout"
        /\ \E op \in awaiting : op.id = b
(* ------------------------- properties: waiting ------------------------- *)
\* what holds of a waiting function at every moment: no more checks than
\* max_attempts, at most one call of the method, a call only after a check
\* that succeeded, and after a timeout no call and no port
WaitBounded(w) ==
    /\ w.checks <= w.max_attempts
    /\ w.calls <= 1
    /\ w.calls = 1 => is_loaded_cache
    /\ w.pc = "timedOut" =>
          /\ w.calls = 0
          /\ w.port = 0
          /\ w.checks = w.max_attempts

\* C29: both waiting functions check readiness at most max_attempts times,
\* call the method at most once and only after a check succeeded, report
\* the timeout without a call when every check failed, and come to an end
C29_WaitingIsBounded ==
    /\ [](WaitBounded(notifier) /\ WaitBounded(blocker))
    /\ (notifier.pc = "deferred") ~> (notifier.pc \in {"notified", "timedOut"})
    /\ (blocker.pc = "looping") ~> (blocker.pc \in {"started", "failed", "timedOut"})

\* one function gave up after max_attempts checks; the other, started
\* later, found Denops loaded at its last attempt and called start once
C29_Witness ==
    /\ notifier.pc = "timedOut"
    /\ notifier.checks = MaxAttempts
    /\ blocker.pc = "started"
    /\ blocker.checks = blocker.max_attempts
    /\ blocker.checks > 1
    /\ blocker.calls = 1
    /\ blocker.port # 0
(* ------------------------- properties: connect ------------------------- *)
\* every attempt that was started has failed and none is scheduled
Exhausted ==
    /\ conn.pc = "connecting"
    /\ conn.scheduled = 0
    /\ \A a \in AttemptIds : att[a].readyState \in {"NEW", "CLOSED"}
    /\ ~conn.connectionReady

\* C30 (as claimed): one connect() makes at most maxRetries + 1 attempts;
\* when they are exhausted without an open connection the failure has been
\* shown and this.socket is null; once the failure has been shown no
\* further attempt starts
C30_BoundedRetryThenTerminalFailure ==
    /\ conn.attempts <= conn.maxRetries + 1
    /\ Exhausted => (conn.failures > 0 /\ conn.socket = 0)
    /\ conn.lateAttempts = 0
(* ----------------- properties: executeVSCodeCommandSync ---------------- *)
\* C31: executeVSCodeCommandSync always hands its caller a structured result,
\* never a raw exception: {success: true, data} with the response's result
\* when the promise of the call was resolved by a non-error response, and
\* {success: false, error} with a non-empty error text when it was rejected
\* by an error response, by the timeout or for want of a destination.
C31_StructuredResult ==
    \A k \in CallIds :
        syncResult[k] # NotReturned =>
            /\ syncResult[k].kind = "returned"
            /\ settled[k] # <<>>
            /\ LET e == Head(settled[k]) IN
               IF e.arm = "resolve"
               THEN /\ syncResult[k].success
                    /\ syncResult[k].data = e.result
               ELSE /\ ~syncResult[k].success
                    /\ syncResult[k].error.message # ""
                    /\ syncResult[k].error.message \in {e.err, e.result}

\* one call returned a success, the other the no-destination failure
C31_Witness ==
    /\ \E k \in CallIds : syncResult[k].kind = "returned" /\ syncResult[k].success
    /\ \E k \in CallIds :
          /\ syncResult[k].kind = "returned"
          /\ ~syncResult[k].success
          /\ settled[k] = <<NoDestError>>

(* --------------------- properties: open connections -------------------- *)
\* C32 (as claimed): every accepted connection that is open, and has had no
\* close or error event, is in the registry, so that it receives every later
\* broadcast; a broadcast between its accept and its open event does not
\* make the registry lose it.
C32_OpenConnectionRegistered ==
    \A s \in SocketIds : readyState[s] = "OPEN" => s \in sockets

(* ---------------------- properties: one attempt ------------------------ *)
\* the attempts whose socket is connecting or open
LiveAttempts == {a \in AttemptIds : att[a].readyState \in {"CONNECTING", "OPEN"}}

\* the attempts that have failed: closed, or being closed by the timeout
FailedAttempts == {a \in AttemptIds : att[a].readyState \in {"CLOSING", "CLOSED"}}

\* C33 (as claimed): each failed attempt of connect() schedules at most one
\* retry; at any time at most one attempt or live socket exists, this.socket
\* refers to it, and connectionReady is true only while this.socket is that
\* open socket.
C33_OneAttemptAtATime ==
    /\ conn.retryCount <= Cardinality(FailedAttempts)
    /\ Cardinality(LiveAttempts) <= 1
    /\ \A a \in LiveAttempts : conn.socket = a
    /\ conn.connectionReady => isConnected(conn, att)

(* ------------------------ properties: disconnect ----------------------- *)
\* C34 (as claimed): after disconnect() or close(), and until connect() is
\* called again, this.socket stays null, connectionReady stays false and no
\* new connection attempt is started.
C34_DisconnectedStaysDisconnected ==
    [][conn.pc \in {"disconnected", "closed"} =>
         /\ conn'.socket = 0
         /\ ~conn'.connectionReady
         /\ conn'.attempts = conn.attempts]_vars

(* ------------------------ properties: failed start --------------------- *)
\* C35 (as claimed): a start that returned {success: false}, for a bind
\* error or for the 10 s timeout, has not left a server bound and does not
\* produce one later: its server is never bound and never in currentServer.
C35_FailedStartBindsNothing ==
    \A id \in 1..MaxOps :
        (starts[id].pc = "returned" /\ ~starts[id].result.success) =>
            (id \notin servers /\ currentServer # id)

(* ---------------------- properties: arrival order ---------------------- *)
\* no handleCursorPosMessage run is in flight
NoHandlerInFlight == \A i \in 1..Len(rpcQueue) : rpcQueue[i].kind # "inbound"

\* the caret of Neovim is at pos
CaretAt(pos) == curPath = pos.path /\ curLine = pos.line /\ curCol = pos.col

\* C36 (as claimed): inbound CursorPos messages are applied in arrival
\* order: once the handlers of the messages received have finished,
\* lastCursorPos and the caret correspond to the message received last, and
\* whenever no handler is in flight lastCursorPos is the position the caret
\* was last moved to.
C36_AppliedInArrivalOrder ==
    NoHandlerInFlight =>
        /\ (received.outcome = "handled" /\ received.data.case = "cursorPos") =>
              /\ lastCursorPos["websocket"] = received.data.pos
              /\ CaretAt(received.data.pos)
        /\ lastCursorPos["websocket"] # NoPos => CaretAt(lastCursorPos["websocket"])

(* ---------------------- properties: emitted path ----------------------- *)
\* this step is the end of the debounced function at the head of the queue,
\* run for the syncCursorPos call that stored lastCursorPos last: no later
\* call has armed the timer and no other run of the function is queued
FlushOfLastCall ==
    /\ rpcQueue # <<>>
    /\ HeadTask.kind = "flush"
    /\ rpcQueue' = Tail(rpcQueue)
    /\ debounceTimer = 0
    /\ Len(SelectSeq(rpcQueue, IsFlush)) = 1

\* C37 (as claimed): the CursorPos message the debounced sender emits for a
\* syncCursorPos call carries exactly the {path, line, col} that call stored
\* in lastCursorPos, also when the current buffer changes between the call
\* and the end of the debounce interval.
C37_EmittedIsStoredPosition ==
    [][FlushOfLastCall =>
         Emitted' = Append(Emitted,
                           CursorPosMsg(lastCursorPos["main"].path,
                                        lastCursorPos["main"].line,
                                        lastCursorPos["main"].col))]_vars

(* --------------------- properties: VSCode positions -------------------- *)
\* the 1-based position of the payload lies inside the document of its path
VsInsideDocument(payload) ==
    /\ payload.line \in 1..lineCount(payload.path)
    /\ payload.col \in 1..Max(1, lineAtLength(payload.path, payload.line - 1))

\* C38 (as claimed): with the window not focused, every incoming position
\* that lies inside the document and differs from lastCursorPosition is
\* applied, the last line of the document included: setCursorPosition gets
\* the incoming line and column and no error is raised.
C38_InsidePositionApplied ==
    [][(/\ VsApplyStep
        /\ VsInsideDocument(Head(vsTasks).payload)
        /\ Head(vsTasks).payload # lastCursorPosition) =>
         LET payload == Head(vsTasks).payload
         IN  /\ vsLast'.outcome = "applied"
             /\ vsSel'[payload.path] = [line |-> payload.line - 1,
                                        character |-> payload.col - 1]]_vars

(* ------------------------- properties: answers ------------------------- *)
\* the responses to request k that a socket has accepted
ResponsesTo(k) ==
    SelectSeq(sockSent, LAMBDA x : x.msg.case = "executeCommand" /\ x.msg.requestId = k)

\* C39 (as claimed): for every ExecuteCommand with a requestId that was
\* received exactly one response with that requestId is sent back, with
\* isError = false and the result when the execution succeeded and with
\* isError = true and the error message when it threw; no request is
\* answered twice or left unanswered.
C39_ExactlyOneResponse ==
    \A k \in RequestIds :
        IF requests[k].state = "done"
        THEN /\ Len(ResponsesTo(k)) = 1
             /\ ResponsesTo(k)[1].msg.isError = ~requests[k].ok
             /\ ResponsesTo(k)[1].msg.result = requests[k].result
        ELSE Len(ResponsesTo(k)) = 0

(* -------------------------- properties: queue -------------------------- *)
\* this step is the onopen handler of an attempt
OpenStep == \E a \in AttemptIds : att[a].readyState # "OPEN" /\ att'[a].readyState = "OPEN"

\* this step is disconnect() or close()
TeardownStep == conn.pc = "connecting" /\ conn'.pc \in {"disconnected", "closed"}

\* this step is an onclose handler that does not retry
NoRetryCloseStep ==
    /\ \E a \in AttemptIds : att[a].readyState # "CLOSED" /\ att'[a].readyState = "CLOSED"
    /\ conn'.scheduled = conn.scheduled

\* this step is a sendMessage call of the extension
SendStep == nextSend' = nextSend + 1

\* C40 (as claimed): while the connection is not ready sendMessage queues
\* cursorPos and selectionPos messages only and pendingMessages never holds
\* more than 50 entries; when the connection opens only the most recent
\* queued cursorPos and the most recent queued selectionPos are sent and the
\* queue is emptied; disconnect, close and a connection close that is not
\* retried empty the queue as well.
C40_QueueDiscipline ==
    /\ [](/\ Len(pendingMessages) <= QueueLimit
          /\ \A i \in 1..Len(pendingMessages) :
                pendingMessages[i].case \in {"cursorPos", "selectionPos"})
    /\ [][(SendStep /\ ~conn.connectionReady) =>
            /\ sockSent' = sockSent
            /\ Len(pendingMessages') = Len(pendingMessages) + 1]_vars
    /\ [][OpenStep =>
            /\ pendingMessages' = <<>>
            /\ Len(sockSent') - Len(sockSent) =
                 Cardinality({pendingMessages[i].case : i \in 1..Len(pendingMessages)})
            /\ \A i \in (Len(sockSent) + 1)..Len(sockSent') :
                  LET m == sockSent'[i].msg
                      same == queuedOf(pendingMessages, m.case)
                  IN  m = same[Len(same)]]_vars
    /\ [][(TeardownStep \/ NoRetryCloseStep) => pendingMessages' = <<>>]_vars

====
